---------------------------- MODULE Spec2Model ----------------------------
(***************************************************************************)
(* State-machine model of the XDP packet classification programs of        *)
(* src/src/xdp.c (maps of src/include/maps.h).                             *)
(*                                                                         *)
(* A packet is the sequence of its wire bytes; byte offset o of the frame  *)
(* is element o + 1.  A __u32 is the tuple of its four bytes in memory     *)
(* order (little endian: element 1 is the least significant byte), so a    *)
(* load of four wire bytes is the identity on the bytes and bpf_htonl of a *)
(* literal is the literal's bytes most significant first.  All bit         *)
(* operations are computed bytewise, modulo 2^32.                          *)
(***************************************************************************)
EXTENDS Integers, Sequences, FiniteSets, TLC

(* ------------------------------ bytes -------------------------------- *)

RECURSIVE BAnd(_, _)
BAnd(a, b) ==
    IF a = 0 \/ b = 0 THEN 0
    ELSE IF a = b \/ b = 255 THEN a
    ELSE IF a = 255 THEN b
    ELSE (a % 2) * (b % 2) + 2 * BAnd(a \div 2, b \div 2)

RECURSIVE BXor(_, _)
BXor(a, b) ==
    IF a = 0 THEN b
    ELSE IF b = 0 THEN a
    ELSE IF a = b THEN 0
    ELSE ((a + b) % 2) + 2 * BXor(a \div 2, b \div 2)

BOr(a, b) == a + b - BAnd(a, b)

(* ------------------------------ __u32 -------------------------------- *)

ZERO32 == <<0, 0, 0, 0>>
ONES32 == <<255, 255, 255, 255>>

\* the __u32 with value n, for 0 <= n < 2^31
U32(n) == <<n % 256, (n \div 256) % 256, (n \div 65536) % 256, n \div 16777216>>

\* the value of a __u32 known to be below 2^24
Val(x) == x[1] + 256 * x[2] + 65536 * x[3]

And32(x, y) == [i \in 1..4 |-> BAnd(x[i], y[i])]
Xor32(x, y) == [i \in 1..4 |-> BXor(x[i], y[i])]
Or32(x, y)  == [i \in 1..4 |-> BOr(x[i], y[i])]
Not32(x)    == [i \in 1..4 |-> 255 - x[i]]

\* x + 1 modulo 2^32
Inc32(x) ==
    IF x[1] < 255 THEN <<x[1] + 1, x[2], x[3], x[4]>>
    ELSE IF x[2] < 255 THEN <<0, x[2] + 1, x[3], x[4]>>
    ELSE IF x[3] < 255 THEN <<0, 0, x[3] + 1, x[4]>>
    ELSE <<0, 0, 0, (x[4] + 1) % 256>>

\* x - 1 modulo 2^32
Dec32(x) ==
    IF x[1] > 0 THEN <<x[1] - 1, x[2], x[3], x[4]>>
    ELSE IF x[2] > 0 THEN <<255, x[2] - 1, x[3], x[4]>>
    ELSE IF x[3] > 0 THEN <<255, 255, x[3] - 1, x[4]>>
    ELSE <<255, 255, 255, (x[4] + 255) % 256>>

\* unary minus on a __u32
Neg32(x) == Inc32(Not32(x))

\* x >> 31
Shr31(x) == U32(x[4] \div 128)

\* a C truth value (0 or 1) as a __u32
B32(b) == IF b THEN U32(1) ELSE ZERO32

\* the low byte of a __u32: the conversion to __u8
Lo8(x) == x[1]

(* --------------------------- constants ------------------------------- *)

XDP_DROP == 1
XDP_PASS == 2
ETH_HLEN == 14
AF_INET == 2
AF_INET6 == 10
\* sizeof(struct wl_v6_key): as the key type of whitelist_map (aligned(64)),
\* and as the CLI declares it (family, pad[3], addr)
WL_KEY_SIZE == 64
CLI_KEY_SIZE == 20
PROTO_TCP == 6
PROTO_UDP == 17
PROTO_ICMP == 1
PROTO_ICMP6 == 58
IPV6_HDR_LEN == 40
PANIC_IDX == 1
SURICATA_IDX == 6
STATE_IDX == 8
FLOW_TAB_SZ == 65536

\* ETH_P_IP_BE 0x0008u and ETH_P_IPV6_BE 0xDD86u as __u32
ETH_P_IP_BE == <<8, 0, 0, 0>>
ETH_P_IPV6_BE == <<134, 221, 0, 0>>

\* bpf_htons of a 16-bit literal: its two bytes swapped
bpf_htons(x) == <<x[2], x[1]>>
\* bpf_ntohs, then read as a number: the first byte in memory is the high one
bpf_ntohs(x) == x[1] * 256 + x[2]

\* eq32 of xdp.c
eq32(a, b) == Neg32(Shr31(Dec32(Xor32(a, b))))


\* a 32-bit literal 0xAABBCCDD in memory order
Lit32(aa, bb, cc, dd) == <<dd, cc, bb, aa>>
\* bpf_htonl: the four bytes reversed
bpf_htonl(x) == <<x[4], x[3], x[2], x[1]>>

\* ETH_P_IP 0x0800 and ETH_P_IPV6 0x86DD as __u16 in memory order
ETH_P_IP == <<0, 8>>
ETH_P_IPV6 == <<221, 134>>

(* ----------------------------- packets ------------------------------- *)

Zeros(n) == [i \in 1..n |-> 0]
\* a whitelist key <<family, addr[16], rest>>: pad[3] is zero in every key
\* built; rest is the key's bytes after addr, up to the key size of the map
KeyRest == Zeros(WL_KEY_SIZE - CLI_KEY_SIZE)

\* Ethernet header with the two ethertype bytes in wire order
Eth(et) == Zeros(12) \o et

\* IPv4 header of ihl 32-bit words
Ip4(ihl, proto, src, dst) ==
    <<64 + ihl, 0, 0, 0, 0, 0, 0, 0, 64, proto, 0, 0>> \o src \o dst
        \o Zeros(4 * ihl - 20)

Ip6(nh, src, dst) == <<96, 0, 0, 0, 0, 0, nh, 64>> \o src \o dst

\* the first 14 bytes of a TCP header (UDP and others share the port layout)
L4(sport, dport, flags) ==
    <<sport \div 256, sport % 256, dport \div 256, dport % 256>>
        \o Zeros(8) \o <<80, flags>>

Icmp(type, code) == <<type, code>> \o Zeros(12)

Trunc(p, n) == SubSeq(p, 1, IF n < Len(p) THEN n ELSE Len(p))

\* bpf_xdp_load_bytes(ctx, off, to, n): succeeds iff off + n lies within the frame
LoadOk(p, off, n) == off + n <= Len(p)
\* the destination after the call: left as it was (old) on failure
Ld(p, off, n, old) == IF LoadOk(p, off, n) THEN SubSeq(p, off + 1, off + n) ELSE old
\* one byte loaded into a __u8 initialised to 0
Ld8(p, off) == Ld(p, off, 1, <<0>>)[1]

(* ------------------------------ state -------------------------------- *)

VARIABLES
    bpf_err,        \* what bpf_xdp_load_bytes returns on failure, as __u32
    jmp_table,      \* program array: index -> program name or "none"
    whitelist_map,  \* set of wl_v6_key <<family, addr[16], rest>>
    cli_log,        \* history: the last runs of the whitelist CLI, latest first
    panic_flag,     \* what the lookup of slot 0 gives: <<v>>, or <<>> for NULL
    acl_ports,      \* <<bm>> with the __u64 bitmap as the set of its set bits, or <<>>
    icmp_allow,     \* set of icmp_key <<family, type, code>>
    ipv4_drop,      \* set of __u32 addresses
    ipv6_drop,      \* set of ip6_key addr[16]
    global_bypass,  \* what the lookup of slot 0 gives: <<v>>, or <<>> for NULL
    flow_table_v4,  \* slot index -> bypass_v4 record, for the slots written
    flow_table_v6,  \* slot index -> bypass_v6 record, for the slots written
    now,            \* bpf_ktime_get_ns(), in ticks of 1 ms
    tcp_flow,       \* flow_key -> timestamp
    udp_flow,       \* flow_key -> timestamp
    tcp6_flow,      \* ids_flow_v6_key -> timestamp
    udp6_flow,      \* ids_flow_v6_key -> timestamp
    tcp_rate,       \* ip_key -> rate_limit [window_start, syn_count]
    udp_rl,         \* udp_key -> udp_meta [last_seen, tokens]
    cfg_map,        \* what the lookup of slot 0 gives: <<rl_cfg [ns, br]>>, or <<>>
    path_stats,     \* <<fast, slow>>: the counters of slots 0 and 1
    nrx,            \* frames handed to the flow and stateful programs so far
    flow_log,       \* history: <<table, key>> -> the frame whose run wrote the entry
    syn_log,        \* history: <<source, time>> -> initial SYNs [seen, passed], while recent
    udp_log,        \* history: source -> the last UDP datagram charged [t, left, ret, had, idle]
    nctl,           \* control-plane and inspector writes so far
    entry,          \* the program the current frame was handed to
    pc,             \* the program about to run on the frame, "idle" or "done"
    pkt,            \* the frame
    verdict,        \* the XDP return value of the run, 0 while there is none
    trace,          \* the programs run on the frame, each with what it did
    cpu_run,        \* CPU -> the flow-stage program running on it: [prog, pkt, step]
    cpu_stats,      \* CPU -> its shard <<fast, slow>> of path_stats
    cpu_seen,       \* history: CPU -> frames <<fast path, dispatcher>> handed to it
    eq_a,           \* first argument of the call of eq32, a __u32
    eq_b,           \* second argument of the call of eq32, a __u32
    eq_r            \* what the call returned, a __u32, or <<>> before it returns

cfgvars == <<whitelist_map, cli_log, panic_flag, acl_ports, icmp_allow, ipv4_drop,
             ipv6_drop, global_bypass>>
bypvars == <<flow_table_v4, flow_table_v6>>
runvars == <<entry, pc, pkt, verdict, trace>>
flowvars == <<tcp_flow, udp_flow, tcp6_flow, udp6_flow>>
ratevars == <<tcp_rate, udp_rl>>
histvars == <<flow_log, syn_log, udp_log>>
datavars == <<now, flowvars, ratevars, cfg_map, path_stats, nrx, histvars>>
cpuvars == <<cpu_run, cpu_stats, cpu_seen>>
eqvars == <<eq_a, eq_b, eq_r>>
vars == <<bpf_err, jmp_table, eqvars, cpuvars, cfgvars, bypvars, datavars, nctl, runvars>>

\* a lookup that gives NULL
NoEntry == <<>>

\* bound on the number of control-plane and inspector writes in a behaviour
MaxCtl == 2

\* the CPUs that run the flow stage side by side
NCpu == 2
CPUs == 0..(NCpu - 1)
\* no program runs on the CPU
Idle == [prog |-> "none", pkt |-> <<>>, step |-> "idle"]

\* BPF_ERR of test_xdp.c (-1) and of bpf_stub.h (-EFAULT = -14), as __u32
BpfErrs == {<<255, 255, 255, 255>>, <<242, 255, 255, 255>>}

\* the return value of bpf_xdp_load_bytes as __u32
Rc(p, off, n) == IF LoadOk(p, off, n) THEN ZERO32 ELSE bpf_err

\* bpf_tail_call(ctx, &jmp_table, idx): the program in the slot, "none" when
\* the index is out of range or the slot is empty (the call then falls through)
TailTarget(idx) == IF idx \in DOMAIN jmp_table THEN jmp_table[idx] ELSE "none"

JmpWired_fastpath_in_suricata_slot ==
    [i \in 0..15 |->
        IF i = PANIC_IDX THEN "xdp_panic_flag"
        ELSE IF i = SURICATA_IDX THEN "xdp_flow_fastpath"
        ELSE IF i = STATE_IDX THEN "xdp_state"
        ELSE "none"]

\* the slots the programs name, holding the programs named
JmpWired ==
    [i \in 0..15 |->
        IF i = PANIC_IDX THEN "xdp_panic_flag"
        ELSE IF i = SURICATA_IDX THEN "xdp_suricata_gate"
        ELSE IF i = STATE_IDX THEN "xdp_state"
        ELSE "none"]

\* no slot holds a program
JmpNone == [i \in 0..15 |-> "none"]

(* ------------------------- whitelist gate ----------------------------- *)

\* the whitelist lookup of xdp_wl_pass: k4 is looked up for an IPv4 frame,
\* k6 for an IPv6 frame
wl_hit_v4only(v4, v6, k4, k6) == v4 # ZERO32 /\ k4 \in whitelist_map

wl_hit(v4, v6, k4, k6) ==
    \/ (v4 # ZERO32 /\ k4 \in whitelist_map)
    \/ (v6 # ZERO32 /\ k6 \in whitelist_map)

\* the echo test of xdp_wl_pass: ICMP type 0 or 8, ICMPv6 type 128 or 129
wl_echo_request_only(icmp4, icmp6, type) ==
    Or32(And32(icmp4, eq32(type, U32(8))), And32(icmp6, eq32(type, U32(128))))

wl_echo(icmp4, icmp6, type) ==
    LET echo4 == And32(icmp4, Or32(eq32(type, U32(0)), eq32(type, U32(8))))
        echo6 == And32(icmp6, Or32(eq32(type, U32(128)), eq32(type, U32(129))))
    IN  Or32(echo4, echo6)

\* xdp_wl_pass: [hit, drop, call, ret]; ret is the value returned when the
\* tail call is not made or falls through
xdp_wl_pass(p) ==
    LET eth2  == Ld(p, ETH_HLEN - 2, 2, <<0, 0>>)
        eth   == <<eth2[1], eth2[2], 0, 0>>
        err0  == Rc(p, ETH_HLEN - 2, 2)
        v4    == eq32(eth, ETH_P_IP_BE)
        v6    == eq32(eth, ETH_P_IPV6_BE)
        k4    == <<AF_INET, Ld(p, ETH_HLEN + 12, 4, Zeros(4)) \o Zeros(12), KeyRest>>
        k6    == <<AF_INET6, Ld(p, ETH_HLEN + 8, 16, Zeros(16)), KeyRest>>
        err   == Or32(err0, And32(Rc(p, ETH_HLEN + 8, 16), Neg32(v6)))
        hit   == wl_hit(v4, v6, k4, k6)
        p4    == Ld8(p, ETH_HLEN + 9)
        p6    == Ld8(p, ETH_HLEN + 6)
        vhl   == Ld8(p, ETH_HLEN)
        l4    == BOr(BAnd(p4, Lo8(v4)), BAnd(p6, Lo8(v6)))
        icmp4 == And32(v4, eq32(U32(l4), U32(PROTO_ICMP)))
        icmp6 == And32(v6, eq32(U32(l4), U32(PROTO_ICMP6)))
        is_icmp == Or32(icmp4, icmp6)
        ihl   == U32(BAnd(vhl, 15) * 4)
        off   == ETH_HLEN + Val(And32(ihl, v4)) + Val(And32(U32(IPV6_HDR_LEN), v6))
        type  == U32(Ld8(p, off))
        drop0 == And32(And32(B32(~hit), is_icmp), wl_echo(icmp4, icmp6, type))
        drop  == Or32(drop0, B32(err # ZERO32))
        call  == Or32(B32(hit), drop) = ZERO32
        res   == Xor32(U32(XDP_PASS),
                       And32(Xor32(U32(XDP_PASS), U32(XDP_DROP)), Neg32(drop)))
        ret   == Xor32(res, And32(Xor32(res, U32(XDP_PASS)), Neg32(B32(hit))))
    IN  [hit |-> hit, drop |-> drop # ZERO32, call |-> call, ret |-> Val(ret),
         err |-> err # ZERO32]

(* --------------------------- panic gate ------------------------------- *)

xdp_panic_flag_absent_active ==
    LET val    == IF panic_flag = NoEntry THEN 1 ELSE panic_flag[1]
        active == B32(val = 1)
    IN  Val(Xor32(U32(XDP_PASS),
                  And32(Xor32(U32(XDP_PASS), U32(XDP_DROP)), Neg32(active))))

\* xdp_panic_flag: the value returned
xdp_panic_flag ==
    LET val    == IF panic_flag = NoEntry THEN 0 ELSE panic_flag[1]
        active == B32(val = 1)
    IN  Val(Xor32(U32(XDP_PASS),
                  And32(Xor32(U32(XDP_PASS), U32(XDP_DROP)), Neg32(active))))

(* ---------------------------- ACL gate -------------------------------- *)

allow_l4_any_proto(family, proto, port, bm) ==
    And32(B32((port % 64) \in bm), B32(port < 64))

\* allow_l4: 1 iff proto is TCP or UDP, port < 64 and bit (port & 63) of bm is set
allow_l4(family, proto, port, bm) ==
    LET ok  == B32(proto = PROTO_TCP \/ proto = PROTO_UDP)
        bit == And32(B32((port % 64) \in bm), B32(port < 64))
    IN  And32(ok, bit)

\* xdp_acl: [allow, ret]
xdp_acl(p) ==
    LET pr2    == Ld(p, ETH_HLEN - 2, 2, <<0, 0>>)
        proto  == <<pr2[1], pr2[2], 0, 0>>
        pr4    == Ld8(p, ETH_HLEN + 9)
        pr6    == Ld8(p, ETH_HLEN + 6)
        vhl    == Ld8(p, ETH_HLEN)
        is_v4  == eq32(proto, ETH_P_IP_BE)
        is_v6  == eq32(proto, ETH_P_IPV6_BE)
        l4     == BOr(BAnd(pr4, Lo8(is_v4)), BAnd(pr6, Lo8(is_v6)))
        family == AF_INET * (IF is_v4 # ZERO32 THEN 1 ELSE 0)
                    + AF_INET6 * (IF is_v6 # ZERO32 THEN 1 ELSE 0)
        ihl    == U32(BAnd(vhl, 15) * 4)
        off    == ETH_HLEN + Val(And32(ihl, is_v4))
                    + Val(And32(U32(IPV6_HDR_LEN), is_v6))
        dp     == bpf_ntohs(Ld(p, off + 2, 2, <<0, 0>>))
        bm     == IF acl_ports = NoEntry THEN {} ELSE acl_ports[1]
        allow0 == allow_l4(family, l4, dp, bm)
        is_icmp == Or32(And32(is_v4, eq32(U32(l4), U32(PROTO_ICMP))),
                        And32(is_v6, eq32(U32(l4), U32(PROTO_ICMP6))))
        type   == Ld8(p, off)
        code   == Ld8(p, off + 1)
        k      == <<family, type, code>>
        allowed == And32(is_icmp, B32(k \in icmp_allow))
        allow  == Or32(allow0, allowed)
    IN  [allow |-> allow # ZERO32, ret |-> XDP_DROP + Val(allow)]

(* -------------------------- blacklist gate ---------------------------- *)

is_private_ipv4(ip) ==
    LET a == And32(ip, bpf_htonl(Lit32(255, 0, 0, 0))) = bpf_htonl(Lit32(10, 0, 0, 0))
        b == And32(ip, bpf_htonl(Lit32(255, 240, 0, 0))) = bpf_htonl(Lit32(172, 16, 0, 0))
        c == And32(ip, bpf_htonl(Lit32(255, 255, 0, 0))) = bpf_htonl(Lit32(192, 168, 0, 0))
        d == And32(ip, bpf_htonl(Lit32(255, 255, 0, 0))) = bpf_htonl(Lit32(169, 254, 0, 0))
    IN  a \/ b \/ c \/ d

\* proto is the __u16 the caller loaded from the ethertype bytes
bl_ipv4_hit(p, proto) ==
    LET is_v4 == proto = bpf_htons(ETH_P_IP)
        ip    == Ld(p, ETH_HLEN + 12, 4, Zeros(4))
        err   == And32(Rc(p, ETH_HLEN + 12, 4), Neg32(B32(is_v4)))
        bl    == ip \in ipv4_drop
        prv   == is_private_ipv4(ip)
    IN  (bl \/ prv) /\ is_v4 /\ err = ZERO32

bl_ipv6_hit(p, proto) ==
    LET is_v6 == proto = bpf_htons(ETH_P_IPV6)
        k     == Ld(p, ETH_HLEN + 8, 16, Zeros(16))
        err   == And32(Rc(p, ETH_HLEN + 8, 16), Neg32(B32(is_v6)))
        ula   == BAnd(k[1], 254) = 252
        llnk  == k[1] = 254 /\ BAnd(k[2], 192) = 128
        bl    == k \in ipv6_drop
    IN  (bl \/ ula \/ llnk) /\ is_v6 /\ err = ZERO32

\* parse_ipv4: [err, k] with k the flow_key <<saddr, daddr, sport, dport, proto>>
parse_ipv4(p) ==
    LET vhl == Ld8(p, ETH_HLEN)
        l4  == Ld8(p, ETH_HLEN + 9)
        ihl == BAnd(vhl, 15) * 4
        err == Or32(Or32(Or32(Rc(p, ETH_HLEN, 1), Rc(p, ETH_HLEN + 9, 1)),
                         Or32(Rc(p, ETH_HLEN + 12, 4), Rc(p, ETH_HLEN + 16, 4))),
                    Or32(Rc(p, ETH_HLEN + ihl, 2), Rc(p, ETH_HLEN + ihl + 2, 2)))
    IN  [err |-> err,
         k |-> <<Ld(p, ETH_HLEN + 12, 4, Zeros(4)), Ld(p, ETH_HLEN + 16, 4, Zeros(4)),
                 Ld(p, ETH_HLEN + ihl, 2, Zeros(2)), Ld(p, ETH_HLEN + ihl + 2, 2, Zeros(2)),
                 l4>>]

\* parse_ipv6: [err, k] with k the bypass_v6 <<saddr, daddr, sport, dport, proto>> (dir 0)
parse_ipv6(p) ==
    LET nh  == Ld8(p, ETH_HLEN + 6)
        err == Or32(Or32(Rc(p, ETH_HLEN + 6, 1),
                         Or32(Rc(p, ETH_HLEN + 8, 16), Rc(p, ETH_HLEN + 24, 16))),
                    Or32(Rc(p, ETH_HLEN + 40, 2), Rc(p, ETH_HLEN + 42, 2)))
    IN  [err |-> err,
         k |-> <<Ld(p, ETH_HLEN + 8, 16, Zeros(16)), Ld(p, ETH_HLEN + 24, 16, Zeros(16)),
                 Ld(p, ETH_HLEN + 40, 2, Zeros(2)), Ld(p, ETH_HLEN + 42, 2, Zeros(2)),
                 nh>>]

\* xdp_blacklist: [hit4, hit6, ret]
xdp_blacklist(p) ==
    LET proto == Ld(p, ETH_HLEN - 2, 2, <<0, 0>>)
        hit4  == bl_ipv4_hit(p, proto)
        hit6  == bl_ipv6_hit(p, proto)
        hit   == B32(hit4 \/ hit6)
    IN  [hit4 |-> hit4, hit6 |-> hit6,
         ret |-> Val(Xor32(U32(XDP_PASS),
                           And32(Xor32(U32(XDP_PASS), U32(XDP_DROP)), Neg32(hit))))]

(* ---------------- bypass cache and deep-inspection gate ---------------- *)

\* idx_v4 of a flow_key
idx_v4(k) ==
    LET h0 == Xor32(k[1], k[2])
        h1 == Xor32(h0, <<k[4][1], k[4][2], k[3][1], k[3][2]>>)
        h2 == Xor32(h1, U32(k[5]))
    IN  Val(And32(h2, U32(FLOW_TAB_SZ - 1)))

\* idx_v6 of a bypass_v6
idx_v6(k) ==
    LET w(a, i) == SubSeq(a, i, i + 3)
        h0 == Xor32(Xor32(w(k[1], 1), w(k[1], 9)), Xor32(w(k[2], 1), w(k[2], 9)))
        h1 == Xor32(h0, <<k[4][1], k[4][2], k[3][1], k[3][2]>>)
        h2 == Xor32(h1, U32(k[5]))
    IN  Val(And32(h2, U32(FLOW_TAB_SZ - 1)))

\* bpf_map_lookup_elem on the PERCPU_ARRAY maps flow_table_v4/v6: the key the
\* map reads is the __u32 at the start of the key buffer, and the lookup gives
\* a slot exactly when that index is below max_entries = FLOW_TAB_SZ
ArrayHit(key4) == key4[4] = 0 /\ Val(key4) < FLOW_TAB_SZ

bl_ipv4_suricata(p, is_v4) ==
    LET r   == parse_ipv4(p)
        ok  == r.err = ZERO32
        hit == ArrayHit(r.k[1])
    IN  (is_v4 /\ ok) /\ ~hit

bl_ipv6_suricata(p, is_v6) ==
    LET r   == parse_ipv6(p)
        ok  == r.err = ZERO32
        hit == ArrayHit(SubSeq(r.k[1], 1, 4))
    IN  (is_v6 /\ ok) /\ ~hit

\* xdp_suricata_gate: [skip, drop, ret]
xdp_suricata_gate(p) ==
    LET skip  == IF global_bypass = NoEntry THEN FALSE ELSE global_bypass[1] = 1
        proto == Ld(p, ETH_HLEN - 2, 2, <<0, 0>>)
        v4    == proto = bpf_htons(ETH_P_IP)
        v6    == proto = bpf_htons(ETH_P_IPV6)
        drop  == B32(bl_ipv4_suricata(p, v4) \/ bl_ipv6_suricata(p, v6))
        res   == Xor32(U32(XDP_PASS),
                       And32(Xor32(U32(XDP_PASS), U32(XDP_DROP)), Neg32(drop)))
        ret   == Xor32(res, And32(Xor32(res, U32(XDP_PASS)), Neg32(B32(skip))))
    IN  [skip |-> skip, drop |-> drop # ZERO32, ret |-> Val(ret)]

(* --------------------- clock, hash maps, counters --------------------- *)

\* Times are in ticks of 1 ms: 1000000000 ns are 1000 ticks
SEC_NS          == 1000
RATE_WINDOW_NS  == SEC_NS
TCP_IDLE_NS     == 15 * SEC_NS
UDP_IDLE_NS     == 5 * SEC_NS
TTL_NS          == 5 * SEC_NS
\* 1000000 ns are 1 tick
DEF_NS          == 1
DEF_BURST       == 100
EFAULT          == 14
SYN_RATE_LIMIT  == 20
SYN_BURST_LIMIT == 100
INVALID_IDX     == 255
INVALID_PROTO   == 255
FAST_CNT_IDX    == 0
SLOW_CNT_IDX    == 1

\* a C truth value as a number
B(b) == IF b THEN 1 ELSE 0

\* bpf_map_lookup_elem on a hash map: <<value>>, or <<>> for NULL
Lookup(tab, k) == IF k \in DOMAIN tab THEN <<tab[k]>> ELSE NoEntry
\* bpf_map_update_elem(.., BPF_ANY); the LRU maps are far from full here, so
\* no entry is evicted to make room
Update(tab, k, v) == [x \in DOMAIN tab \cup {k} |-> IF x = k THEN v ELSE tab[x]]
\* bpf_map_update_elem(.., BPF_NOEXIST)
Insert(tab, k, v) == IF k \in DOMAIN tab THEN tab ELSE Update(tab, k, v)
\* bpf_map_delete_elem on a hash map
Delete(tab, k) == [x \in DOMAIN tab \ {k} |-> tab[x]]

\* count_fast / count_slow: slot idx of path_stats plus one
count_path(idx) == [path_stats EXCEPT ![idx + 1] = @ + 1]

count_on_cpu0(stats, c, idx) == [stats EXCEPT ![0][idx + 1] = @ + 1]

\* count_fast / count_slow on CPU c: the lookup in the PERCPU_ARRAY gives
\* the slot of c's shard, and __atomic_fetch_add adds one to it in one step
count_on(stats, c, idx) == [stats EXCEPT ![c][idx + 1] = @ + 1]

\* mask_in6 / clr_in6: each 32-bit word of the address is masked with m
mask_in6(a, m) ==
    And32(SubSeq(a, 1, 4), m) \o And32(SubSeq(a, 5, 8), m)
        \o And32(SubSeq(a, 9, 12), m) \o And32(SubSeq(a, 13, 16), m)

is_fin_rst(f) == BAnd(f, 5) # 0

(* ----------------------------- flow fast path -------------------------- *)

\* parse_l2, parse_l3 and build_keys: the flow_ctx of a frame
flow_ctx(p) ==
    LET eth      == Ld(p, ETH_HLEN - 2, 2, <<0, 0>>)
        is_ipv4  == eth = bpf_htons(ETH_P_IP)
        is_ipv6  == eth = bpf_htons(ETH_P_IPV6)
        proto_v4 == Ld8(p, ETH_HLEN + 9)
        proto_v6 == Ld8(p, ETH_HLEN + 6)
        vhl      == Ld8(p, ETH_HLEN)
        l4_proto == (B(is_ipv4) * proto_v4 + B(is_ipv6) * proto_v6) % 256
        ihl4     == (vhl % 16) * 4
        hdr_len  == B(is_ipv4) * ihl4 + B(is_ipv6) * 40
    IN  [is_ipv4 |-> is_ipv4, is_ipv6 |-> is_ipv6, l4_proto |-> l4_proto,
         is_tcp |-> l4_proto = PROTO_TCP, is_udp |-> l4_proto = PROTO_UDP,
         hdr_len |-> hdr_len,
         key_v4 |-> <<Ld(p, ETH_HLEN + 12, 4, Zeros(4)),
                      Ld(p, ETH_HLEN + 16, 4, Zeros(4)),
                      Ld(p, ETH_HLEN + hdr_len, 2, Zeros(2)),
                      Ld(p, ETH_HLEN + hdr_len + 2, 2, Zeros(2)), l4_proto>>,
         key_v6 |-> <<Ld(p, ETH_HLEN + 8, 16, Zeros(16)),
                      Ld(p, ETH_HLEN + 24, 16, Zeros(16)),
                      Ld(p, ETH_HLEN + 40, 2, Zeros(2)),
                      Ld(p, ETH_HLEN + 42, 2, Zeros(2)), l4_proto>>]

fresh_ts_no_expiry(ts, t, idle) == ts # NoEntry

\* fresh_ts: ts is what the lookup gave; now - v is taken modulo 2^64, so a
\* timestamp ahead of now counts as expired
fresh_ts(ts, t, idle) ==
    LET has == ts # NoEntry
        exp == has /\ (IF ts[1] > t THEN TRUE ELSE (t - ts[1]) > idle)
    IN  has /\ ~exp

\* lookup_hits: the four hit flags
lookup_hits(f, t) ==
    [hit_tcp_v4 |-> fresh_ts(Lookup(tcp_flow, f.key_v4), t, TCP_IDLE_NS),
     hit_udp_v4 |-> fresh_ts(Lookup(udp_flow, f.key_v4), t, UDP_IDLE_NS),
     hit_tcp_v6 |-> fresh_ts(Lookup(tcp6_flow, f.key_v6), t, TCP_IDLE_NS),
     hit_udp_v6 |-> fresh_ts(Lookup(udp6_flow, f.key_v6), t, UDP_IDLE_NS)]

cleanup_fin_rst_unmasked(p, f) == [k4 |-> f.key_v4, k6 |-> f.key_v6]

\* cleanup_fin_rst: the keys deleted from tcp_flow and tcp6_flow
cleanup_fin_rst(p, f) ==
    LET fl4     == Ld8(p, ETH_HLEN + f.hdr_len + 13)
        fl6     == Ld8(p, ETH_HLEN + 53)
        fin_rst == is_fin_rst((B(f.is_ipv4) * fl4 + B(f.is_ipv6) * fl6) % 256)
                       /\ f.is_tcp
        mask4   == IF fin_rst /\ f.is_ipv4 THEN 255 ELSE 0
        mask6   == IF fin_rst /\ f.is_ipv6 THEN 255 ELSE 0
    IN  [k4 |-> [f.key_v4 EXCEPT ![5] = BAnd(@, mask4)],
         k6 |-> [f.key_v6 EXCEPT ![5] = BAnd(@, mask6)]]

do_tailcall_unmasked(f, h) ==
    IF h.hit_tcp_v4 \/ h.hit_udp_v4 \/ h.hit_tcp_v6 \/ h.hit_udp_v6
    THEN STATE_IDX ELSE SURICATA_IDX

\* do_tailcall: the jmp_table index of the tail call
do_tailcall(f, h) ==
    LET hit4_tcp == h.hit_tcp_v4 /\ f.is_ipv4 /\ f.is_tcp
        hit4_udp == h.hit_udp_v4 /\ f.is_ipv4 /\ f.is_udp
        hit6_tcp == h.hit_tcp_v6 /\ f.is_ipv6 /\ f.is_tcp
        hit6_udp == h.hit_udp_v6 /\ f.is_ipv6 /\ f.is_udp
        hit_any  == hit4_tcp \/ hit4_udp \/ hit6_tcp \/ hit6_udp
    IN  IF hit_any THEN STATE_IDX ELSE SURICATA_IDX

(* ------------------------------ dispatcher ----------------------------- *)

\* parse_l2_l3 and build_keys_dispatch: the dispatch_ctx of a frame
dispatch_ctx(p) ==
    LET eth      == Ld(p, ETH_HLEN - 2, 2, <<0, 0>>) \o <<0, 0>>
        vhl      == Ld8(p, ETH_HLEN)
        proto_v4 == Ld8(p, ETH_HLEN + 9)
        proto_v6 == Ld8(p, ETH_HLEN + 6)
        is_ipv4  == eq32(eth, ETH_P_IP_BE)
        is_ipv6  == eq32(eth, ETH_P_IPV6_BE)
        ihl      == U32((vhl % 16) * 4)
        hdr_len  == Val(Or32(And32(ihl, is_ipv4), And32(U32(IPV6_HDR_LEN), is_ipv6)))
        l4_proto == BOr(BAnd(proto_v4, is_ipv4[1]), BAnd(proto_v6, is_ipv6[1]))
    IN  [is_ipv4 |-> is_ipv4, is_ipv6 |-> is_ipv6,
         is_tcp |-> eq32(U32(l4_proto), U32(PROTO_TCP)),
         is_udp |-> eq32(U32(l4_proto), U32(PROTO_UDP)),
         hdr_len |-> hdr_len, l4_proto |-> l4_proto,
         key_v4 |-> <<Ld(p, ETH_HLEN + 12, 4, Zeros(4)),
                      Ld(p, ETH_HLEN + 16, 4, Zeros(4)),
                      Ld(p, ETH_HLEN + hdr_len, 2, Zeros(2)),
                      Ld(p, ETH_HLEN + hdr_len + 2, 2, Zeros(2)), l4_proto>>,
         key_v6 |-> <<Ld(p, ETH_HLEN + 8, 16, Zeros(16)),
                      Ld(p, ETH_HLEN + 24, 16, Zeros(16)),
                      Ld(p, ETH_HLEN + 40, 2, Zeros(2)),
                      Ld(p, ETH_HLEN + 42, 2, Zeros(2)), l4_proto>>]

update_flows_all_invalid(d) ==
    [k4_tcp |-> [d.key_v4 EXCEPT ![5] = INVALID_PROTO],
     k4_udp |-> [d.key_v4 EXCEPT ![5] = INVALID_PROTO],
     k6_tcp |-> [d.key_v6 EXCEPT ![5] = INVALID_PROTO],
     k6_udp |-> [d.key_v6 EXCEPT ![5] = INVALID_PROTO]]

\* update_flows: the four keys written, one per flow table
update_flows(d) ==
    LET m4t == And32(d.is_ipv4, d.is_tcp)[1]
        m4u == And32(d.is_ipv4, d.is_udp)[1]
        m6t == And32(d.is_ipv6, d.is_tcp)[1]
        m6u == And32(d.is_ipv6, d.is_udp)[1]
        pr(m) == BOr(BAnd(d.l4_proto, m), BAnd(INVALID_PROTO, 255 - m))
    IN  [k4_tcp |-> [d.key_v4 EXCEPT ![5] = pr(m4t)],
         k4_udp |-> [d.key_v4 EXCEPT ![5] = pr(m4u)],
         k6_tcp |-> [d.key_v6 EXCEPT ![5] = pr(m6t)],
         k6_udp |-> [d.key_v6 EXCEPT ![5] = pr(m6u)]]

\* xdp_proto_dispatch: the jmp_table index of its tail call
dispatch_idx(d) ==
    LET l4 == Or32(d.is_tcp, d.is_udp)
    IN  Val(Or32(And32(U32(STATE_IDX), l4), And32(U32(INVALID_IDX), Not32(l4))))

(* ---------------------------- stateful stage -------------------------- *)

\* parse_packet: detect_ip_proto, load_src_addr and load_tcp_flags
tcp_ctx(p) ==
    LET eth     == Ld(p, ETH_HLEN - 2, 2, <<0, 0>>) \o <<0, 0>>
        is_ipv4 == eq32(eth, ETH_P_IP_BE)
        is_ipv6 == eq32(eth, ETH_P_IPV6_BE)
        vhl     == Ld8(p, ETH_HLEN)
        ihl     == U32((vhl % 16) * 4)
        tcp_off == ETH_HLEN + Val(And32(ihl, is_ipv4))
                       + Val(And32(U32(IPV6_HDR_LEN), is_ipv6))
        flags   == Ld8(p, tcp_off + 13)
        syn     == (flags \div 2) % 2
        ack     == (flags \div 16) % 2
    IN  [is_ipv4 |-> is_ipv4, is_ipv6 |-> is_ipv6,
         saddr |-> And32(Ld(p, ETH_HLEN + 12, 4, ZERO32), is_ipv4),
         saddr6 |-> mask_in6(Ld(p, ETH_HLEN + 8, 16, Zeros(16)), Neg32(is_ipv6)),
         syn_only |-> BAnd(syn, 255 - ack)]

\* make_key: the ip_key {is_v6, addr}
make_key(t) ==
    <<Lo8(t.is_ipv6), Or32(SubSeq(t.saddr6, 1, 4), t.saddr) \o SubSeq(t.saddr6, 5, 16)>>

\* load_rl: tcp_rate after the insert-if-absent
load_rl(k, t) == Insert(tcp_rate, k, [window_start |-> t, syn_count |-> 0])

\* store_rl: the rate_limit written back and the exceeded flag
store_rl(add, rl, t) ==
    LET in_window == rl.window_start <= t /\ (t - rl.window_start) < RATE_WINDOW_NS
        count     == (IF in_window THEN rl.syn_count ELSE 0) + add
    IN  [rl |-> [window_start |-> IF in_window THEN rl.window_start ELSE t,
                 syn_count |-> count],
         exceeded |-> B(count > SYN_RATE_LIMIT \/ count > SYN_BURST_LIMIT)]

check_rate_limit_unmasked(t, tm) ==
    LET k  == make_key(t)
        r  == store_rl(t.syn_only, load_rl(k, tm)[k], tm)
    IN  [tcp_rate |-> Update(load_rl(k, tm), k, r.rl), drop |-> r.exceeded]

\* check_rate_limit: tcp_rate after the call and the drop flag
check_rate_limit(t, tm) ==
    LET check == t.syn_only
        k     == make_key(t)
        tab   == load_rl(k, tm)
        r     == store_rl(check, tab[k], tm)
    IN  [tcp_rate |-> Update(tab, k, r.rl), drop |-> BAnd(r.exceeded, check)]

\* tcp_state_drop
tcp_state_drop(p, tm) == check_rate_limit(tcp_ctx(p), tm)

\* parse: the struct pkt of a frame
parse(p) ==
    LET eth == Ld(p, ETH_HLEN - 2, 2, <<0, 0>>) \o <<0, 0>>
        v4  == eq32(eth, ETH_P_IP_BE)
        v6  == eq32(eth, ETH_P_IPV6_BE)
        pr4 == Ld8(p, ETH_HLEN + 9)
        pr6 == Ld8(p, ETH_HLEN + 6)
        l4  == BOr(BAnd(pr4, Lo8(v4)), BAnd(pr6, Lo8(v6)))
    IN  [v4 |-> v4, v6 |-> v6, udp |-> eq32(U32(l4), U32(PROTO_UDP)),
         sip |-> And32(Ld(p, ETH_HLEN + 12, 4, ZERO32), v4),
         sip6 |-> mask_in6(Ld(p, ETH_HLEN + 8, 16, Zeros(16)), v6)]

\* bpf_probe_read_kernel(&dst, sizeof(dst), ptr): the outcomes [rc, val] the
\* builds give.  A read through NULL leaves dst zeroed and returns 0 under
\* the test stubs and -EFAULT in the kernel
bpf_probe_read_kernel(ptr, zero) ==
    IF ptr = NoEntry THEN {[rc |-> rc, val |-> zero] : rc \in {0, -EFAULT}}
    ELSE {[rc |-> 0, val |-> ptr[1]]}

rl_cfg_of_both_unset(o) ==
    LET d == [ns |-> DEF_NS, br |-> DEF_BURST]
        c == IF o.rc = 0 THEN o.val ELSE d
    IN  IF c.ns = 0 /\ c.br = 0 THEN d ELSE c

\* rl_cfg_get after the read: the defaults when the read failed, and the
\* default in place of each field that is zero
rl_cfg_of(o) ==
    LET d == [ns |-> DEF_NS, br |-> DEF_BURST]
        c == IF o.rc = 0 THEN o.val ELSE d
    IN  [ns |-> IF c.ns = 0 THEN d.ns ELSE c.ns,
         br |-> IF c.br = 0 THEN d.br ELSE c.br]

\* what rl_cfg_get can return for the slot of cfg_map as it is
rl_cfg_outcomes ==
    {rl_cfg_of(o) : o \in bpf_probe_read_kernel(cfg_map, [ns |-> 0, br |-> 0])}

\* rl_cfg_get: the rl_cfg in force (every outcome of the read gives the same)
rl_cfg_get == CHOOSE c \in rl_cfg_outcomes : TRUE

meta_ensure_empty(tab, k, br, t) == Insert(tab, k, [last_seen |-> t, tokens |-> 0])

\* meta_ensure: udp_rl after the insert-if-absent
meta_ensure(tab, k, br, t) == Insert(tab, k, [last_seen |-> t, tokens |-> br])

token_bucket_update_drop_unwritten(tab, k, c, t) ==
    LET tab1    == meta_ensure(tab, k, c.br, t)
        m       == tab1[k]
        idle    == t - m.last_seen
        t0      == IF idle >= TTL_NS THEN c.br ELSE m.tokens
        sum     == t0 + idle \div c.ns
        tlim    == IF sum > c.br THEN c.br ELSE sum
        has     == B(tlim # 0)
    IN  [udp_rl |-> IF has = 1
                    THEN Update(tab1, k, [last_seen |-> t, tokens |-> tlim - has])
                    ELSE tab1,
         drop |-> 1 - has]

token_bucket_update_late_reset(tab, k, c, t) ==
    LET tab1    == meta_ensure(tab, k, c.br, t)
        m       == tab1[k]
        idle    == t - m.last_seen
        t0      == IF idle > TTL_NS THEN c.br ELSE m.tokens
        sum     == t0 + idle \div c.ns
        tlim    == IF sum > c.br THEN c.br ELSE sum
        has     == B(tlim # 0)
    IN  [udp_rl |-> Update(tab1, k, [last_seen |-> t, tokens |-> tlim - has]),
         drop |-> 1 - has]

token_bucket_update_unclamped(tab, k, c, t) ==
    LET tab1    == meta_ensure(tab, k, c.br, t)
        m       == tab1[k]
        idle    == t - m.last_seen
        t0      == IF idle >= TTL_NS THEN c.br ELSE m.tokens
        tlim    == t0 + idle \div c.ns
        has     == B(tlim # 0)
    IN  [udp_rl |-> Update(tab1, k, [last_seen |-> t, tokens |-> tlim - has]),
         drop |-> 1 - has]

\* token_bucket_update on the udp_meta m that meta_ensure returned: the
\* udp_meta to write back and the drop flag
bucket_charge(m, c, t) ==
    LET idle    == t - m.last_seen
        reset   == idle >= TTL_NS
        t0      == IF reset THEN c.br ELSE m.tokens
        add     == idle \div c.ns
        sum     == t0 + add
        tlim    == IF sum > c.br THEN c.br ELSE sum
        has     == B(tlim # 0)
    IN  [upd |-> [last_seen |-> t, tokens |-> tlim - has], drop |-> 1 - has]

\* token_bucket_update: udp_rl after the call and the drop flag
token_bucket_update(tab, k, c, t) ==
    LET tab1 == meta_ensure(tab, k, c.br, t)
        r    == bucket_charge(tab1[k], c, t)
    IN  [udp_rl |-> Update(tab1, k, r.upd), drop |-> r.drop]

\* the udp_key {is_v6, addr} built by udp_state_drop and xdp_flow_fastpath
udp_key(is_v6, sip, v4, sip6, v6) ==
    <<B(is_v6), Or32(And32(sip, v4), And32(SubSeq(sip6, 1, 4), v6))
                    \o SubSeq(mask_in6(sip6, v6), 5, 16)>>

\* udp_state_drop
udp_state_drop(p, tm) ==
    LET q == parse(p)
        r == token_bucket_update(udp_rl, udp_key(q.v6 # ZERO32, q.sip, q.v4, q.sip6, q.v6),
                                 rl_cfg_get, tm)
    IN  [udp_rl |-> r.udp_rl, drop |-> B(q.udp # ZERO32 /\ r.drop = 1)]

verdict_sel_unnegated(drop) ==
    Xor32(U32(XDP_PASS), And32(Xor32(U32(XDP_PASS), U32(XDP_DROP)), drop))

\* XDP_PASS ^ ((XDP_PASS ^ XDP_DROP) & -drop)
verdict_sel(drop) ==
    Xor32(U32(XDP_PASS), And32(Xor32(U32(XDP_PASS), U32(XDP_DROP)), Neg32(drop)))

\* xdp_state: both tables after the run and the return value
xdp_state(p, tm) ==
    LET t == tcp_state_drop(p, tm)
        u == udp_state_drop(p, tm)
    IN  [tcp_rate |-> t.tcp_rate, udp_rl |-> u.udp_rl,
         ret |-> Val(verdict_sel(Or32(U32(t.drop), U32(u.drop))))]

(* The kernel can reject bpf_map_update_elem (the stubs never do); the   *)
(* programs ignore its return value.  A rejected insert leaves a source    *)
(* that had no entry without one, and the lookup that follows gives NULL.  *)

\* what the kernel's bpf_probe_read_kernel gives: a read through NULL fails
kernel_read(ptr, zero) ==
    {o \in bpf_probe_read_kernel(ptr, zero) : ptr = NoEntry => o.rc # 0}

\* load_rl when the insert is rejected: the rate_limit read, zeroed when
\* the lookup gives NULL
load_rl_rejected(k) ==
    {o.val : o \in kernel_read(Lookup(tcp_rate, k), [window_start |-> 0, syn_count |-> 0])}

\* check_rate_limit when the writes to tcp_rate are rejected: the drop flags
check_rate_limit_rejected(t, tm) ==
    {BAnd(store_rl(t.syn_only, rl, tm).exceeded, t.syn_only) :
        rl \in load_rl_rejected(make_key(t))}

meta_ensure_rejected_unchecked(k, br, t) ==
    {o.val : o \in kernel_read(Lookup(udp_rl, k), [last_seen |-> 0, tokens |-> 0])}

\* meta_ensure when the insert is rejected: the udp_meta read, init when
\* the read fails
meta_ensure_rejected(k, br, t) ==
    {IF o.rc = 0 THEN o.val ELSE [last_seen |-> t, tokens |-> br] :
        o \in kernel_read(Lookup(udp_rl, k), [last_seen |-> 0, tokens |-> 0])}

\* udp_state_drop when the writes to udp_rl are rejected: the drop flags
udp_state_drop_rejected(p, tm) ==
    LET q == parse(p)
        k == udp_key(q.v6 # ZERO32, q.sip, q.v4, q.sip6, q.v6)
        c == rl_cfg_get
    IN  {B(q.udp # ZERO32 /\ bucket_charge(m, c, tm).drop = 1) :
            m \in meta_ensure_rejected(k, c.br, tm)}

fastpath_fallthrough_any_proto(p, f, tm) ==
    LET icmp == Or32(eq32(U32(f.l4_proto), U32(PROTO_ICMP)),
                     eq32(U32(f.l4_proto), U32(PROTO_ICMP6)))
        m4   == IF f.is_ipv4 THEN ONES32 ELSE ZERO32
        m6   == IF f.is_ipv6 THEN ONES32 ELSE ZERO32
        k    == udp_key(f.is_ipv6, f.key_v4[1], m4, f.key_v6[1], m6)
        r    == token_bucket_update(udp_rl, k, rl_cfg_get, tm)
        res  == verdict_sel(U32(r.drop))
    IN  [udp_rl |-> r.udp_rl,
         ret |-> Val(Xor32(res, And32(Xor32(res, U32(XDP_PASS)), Neg32(icmp))))]

\* xdp_flow_fastpath when its tail call falls through: udp_rl after the run
\* and the return value
fastpath_fallthrough(p, f, tm) ==
    LET icmp == Or32(eq32(U32(f.l4_proto), U32(PROTO_ICMP)),
                     eq32(U32(f.l4_proto), U32(PROTO_ICMP6)))
        m4   == IF f.is_ipv4 THEN ONES32 ELSE ZERO32
        m6   == IF f.is_ipv6 THEN ONES32 ELSE ZERO32
        k    == udp_key(f.is_ipv6, f.key_v4[1], m4, f.key_v6[1], m6)
        r    == IF f.is_udp THEN token_bucket_update(udp_rl, k, rl_cfg_get, tm)
                ELSE [udp_rl |-> udp_rl, drop |-> 0]
        res  == verdict_sel(U32(r.drop))
    IN  [udp_rl |-> r.udp_rl,
         ret |-> Val(Xor32(res, And32(Xor32(res, U32(XDP_PASS)), Neg32(icmp))))]

(* ------------------- what a frame is, on the wire --------------------- *)
(* The vocabulary of the properties below: the header fields of a frame as *)
(* the wire formats lay them out, read without the programs' arithmetic.   *)

IsV4(p) == Len(p) >= 14 /\ p[13] = 8 /\ p[14] = 0
IsV6(p) == Len(p) >= 14 /\ p[13] = 134 /\ p[14] = 221
\* the source address is within the frame
HasSrc(p) == (IsV4(p) /\ Len(p) >= 30) \/ (IsV6(p) /\ Len(p) >= 38)
SrcKey(p) ==
    IF IsV4(p) THEN <<AF_INET, SubSeq(p, 27, 30) \o Zeros(12), KeyRest>>
    ELSE <<AF_INET6, SubSeq(p, 23, 38), KeyRest>>
Whitelisted(p) == HasSrc(p) /\ SrcKey(p) \in whitelist_map
IpHdrLen(p) == IF IsV4(p) THEN (p[15] % 16) * 4 ELSE 40
\* the IP header is whole
HasIp(p) ==
    \/ (IsV4(p) /\ Len(p) >= 34 /\ Len(p) >= 14 + IpHdrLen(p))
    \/ (IsV6(p) /\ Len(p) >= 54)
L4Proto(p) == IF IsV4(p) THEN p[24] ELSE p[21]
L4Off(p) == 14 + IpHdrLen(p)
IsTcpUdp(p) == HasIp(p) /\ L4Proto(p) \in {PROTO_TCP, PROTO_UDP}
HasPorts(p) == Len(p) >= L4Off(p) + 4
DPort(p) == p[L4Off(p) + 3] * 256 + p[L4Off(p) + 4]
\* ICMPv4 on IPv4 or ICMPv6 on IPv6, with its type and code bytes
IsIcmp(p) ==
    /\ HasIp(p)
    /\ (IsV4(p) /\ L4Proto(p) = PROTO_ICMP) \/ (IsV6(p) /\ L4Proto(p) = PROTO_ICMP6)
    /\ Len(p) >= L4Off(p) + 2
IcmpType(p) == p[L4Off(p) + 1]
IcmpCode(p) == p[L4Off(p) + 2]
IsEcho(p) ==
    /\ IsIcmp(p)
    /\ (IsV4(p) /\ IcmpType(p) \in {0, 8}) \/ (IsV6(p) /\ IcmpType(p) \in {128, 129})
Family(p) == IF IsV4(p) THEN AF_INET ELSE AF_INET6
\* the 5-tuple of a frame, <<saddr, daddr, sport, dport, proto>>
FiveTuple(p) ==
    IF IsV4(p)
    THEN <<SubSeq(p, 27, 30), SubSeq(p, 31, 34),
           SubSeq(p, L4Off(p) + 1, L4Off(p) + 2),
           SubSeq(p, L4Off(p) + 3, L4Off(p) + 4), L4Proto(p)>>
    ELSE <<SubSeq(p, 23, 38), SubSeq(p, 39, 54),
           SubSeq(p, L4Off(p) + 1, L4Off(p) + 2),
           SubSeq(p, L4Off(p) + 3, L4Off(p) + 4), L4Proto(p)>>
\* a TCP segment with its flags byte, and the byte
IsTcp(p) == HasIp(p) /\ L4Proto(p) = PROTO_TCP
HasFlags(p) == Len(p) >= L4Off(p) + 14
TcpFlags(p) == p[L4Off(p) + 14]
\* a TCP segment with FIN (bit 0) or RST (bit 2) set
IsFinRst(p) ==
    /\ IsTcp(p) /\ HasFlags(p)
    /\ TcpFlags(p) % 2 = 1 \/ (TcpFlags(p) \div 4) % 2 = 1
\* a TCP segment with SYN (bit 1) set and ACK (bit 4) clear
IsInitialSyn(p) ==
    /\ IsTcp(p) /\ HasFlags(p)
    /\ (TcpFlags(p) \div 2) % 2 = 1 /\ (TcpFlags(p) \div 16) % 2 = 0

\* a run of the pipeline: the frame was handed to the whitelist gate
Pipeline == entry = "xdp_wl_pass"
\* the step in which program prog runs
Runs(prog) == pc = prog /\ pc' # pc
LastStage == trace[Len(trace)]

\* the frame has its L4 protocol and the first two bytes that follow the
\* IP header (the ICMP type and code)
HasL4(p) == HasIp(p) /\ Len(p) >= L4Off(p) + 2
\* a load of the whitelist gate runs past the end of the frame
Truncated(p) ==
    \/ Len(p) < ETH_HLEN
    \/ (IsV4(p) \/ IsV6(p)) /\ (~HasIp(p) \/ Len(p) < L4Off(p) + 1)
\* the source is in 10/8, 172.16/12, 192.168/16, 169.254/16, fc00::/7 or
\* fe80::/10
SrcReserved(p) ==
    /\ HasSrc(p)
    /\ \/ IsV4(p) /\ \/ p[27] = 10
                     \/ p[27] = 172 /\ p[28] \in 16..31
                     \/ p[27] = 192 /\ p[28] = 168
                     \/ p[27] = 169 /\ p[28] = 254
       \/ IsV6(p) /\ \/ p[23] \in {252, 253}
                     \/ p[23] = 254 /\ p[24] \in 128..191
\* the source is an entry of the drop table of its family
SrcListed(p) ==
    /\ HasSrc(p)
    /\ \/ IsV4(p) /\ SubSeq(p, 27, 30) \in ipv4_drop
       \/ IsV6(p) /\ SubSeq(p, 23, 38) \in ipv6_drop

\* a UDP datagram
IsUdp(p) == HasIp(p) /\ L4Proto(p) = PROTO_UDP
\* the udp_key of the frame's source
BucketKey(p) == <<B(IsV6(p)), SrcKey(p)[2]>>
\* udp_log once the run on frame p has ended with verdict ret and left tab
\* as udp_rl: a UDP datagram is entered with its arrival time, the tokens
\* its source's bucket is left with, the verdict, and what it found: the
\* tokens the bucket had and the time since the bucket was touched (-1 for
\* a source without a bucket), and whether a datagram of the source was
\* charged before
Charged(p, tab, ret) ==
    LET k   == BucketKey(p)
        old == k \in DOMAIN udp_rl
    IN  IF IsUdp(p) /\ k \in DOMAIN tab
        THEN Update(udp_log, SrcKey(p),
                    [t |-> now, left |-> tab[k].tokens, ret |-> ret,
                     had |-> IF old THEN udp_rl[k].tokens ELSE -1,
                     idle |-> IF old THEN now - udp_rl[k].last_seen ELSE -1,
                     again |-> SrcKey(p) \in DOMAIN udp_log])
        ELSE udp_log

(* ------------------------------ inputs -------------------------------- *)

\* IPv4 addresses in wire order
PUB4    == <<8, 8, 8, 8>>
LOW4    == <<1, 2, 0, 0>>
NET10   == <<10, 0, 0, 1>>
NET172  == <<172, 31, 0, 1>>
OUT172  == <<172, 32, 0, 1>>
NET192  == <<192, 168, 0, 1>>
NET169  == <<169, 254, 0, 1>>
DST4    == <<9, 9, 9, 9>>

V6(a, b, c, d) == <<a, b, c, d>> \o Zeros(11) \o <<1>>
PUB6    == V6(32, 1, 13, 184)
LOW6    == V6(32, 1, 0, 0)
ULA6    == V6(252, 0, 0, 0)
ULAD6   == V6(253, 0, 0, 0)
LL6     == V6(254, 128, 0, 0)
SITE6   == V6(254, 192, 0, 0)
DST6    == V6(32, 1, 13, 185)

F4(src, proto, l4, ihl) == Eth(<<8, 0>>) \o Ip4(ihl, proto, src, DST4) \o l4
F6(src, nh, l4) == Eth(<<134, 221>>) \o Ip6(nh, src, DST6) \o l4
ARP == Eth(<<8, 6>>) \o Zeros(28)


\* frames handed to xdp_wl_pass
WlFrames ==
    {F4(s, PROTO_TCP, L4(1000, 22, 2), 5) : s \in {PUB4, LOW4, NET10, NET192}}
    \cup {F4(PUB4, PROTO_TCP, L4(1000, 100, 2), 5),
          F4(PUB4, PROTO_UDP, L4(1000, 22, 0), 5),
          F4(PUB4, 47, L4(0, 0, 0), 5),
          F4(PUB4, PROTO_ICMP6, Icmp(128, 0), 5)}
    \cup {F4(s, PROTO_ICMP, Icmp(t, 0), 5) : s \in {PUB4, LOW4}, t \in {0, 8, 11}}
    \cup {F4(PUB4, PROTO_ICMP, Icmp(8, 0), 6), F4(PUB4, PROTO_ICMP, Icmp(11, 0), 6)}
    \cup {F6(s, PROTO_TCP, L4(1000, 22, 2)) : s \in {PUB6, ULA6}}
    \cup {F6(s, PROTO_ICMP6, Icmp(t, 0)) : s \in {PUB6, ULA6}, t \in {128, 129, 135}}
    \cup {F6(PUB6, PROTO_UDP, L4(1000, 100, 0)), F6(PUB6, PROTO_ICMP, Icmp(8, 0)), ARP}
    \cup {Trunc(F4(PUB4, PROTO_TCP, L4(1000, 22, 2), 5), n) : n \in {13, 14, 28}}
    \cup {Trunc(F4(PUB4, PROTO_ICMP, Icmp(11, 0), 5), 34)}
    \cup {Trunc(F6(s, PROTO_TCP, L4(1000, 22, 2)), n) : s \in {PUB6, ULA6}, n \in {13, 14, 30}}
    \cup {Trunc(F6(PUB6, PROTO_ICMP6, Icmp(135, 0)), 37), Trunc(ARP, 14)}

\* frames handed to xdp_acl
AclFrames ==
    {F4(PUB4, pr, L4(1000, d, 2), 5) : pr \in {PROTO_TCP, PROTO_UDP}, d \in {22, 36, 63, 64, 100, 5632}}
    \cup {F4(PUB4, PROTO_TCP, L4(1000, 22, 2), 6), F4(PUB4, 47, L4(1000, 22, 0), 5)}
    \cup {F4(PUB4, PROTO_ICMP, Icmp(t, c), 5) : t \in {8, 11}, c \in {0, 1}}
    \cup {F4(PUB4, PROTO_ICMP6, Icmp(135, 0), 5)}
    \cup {F6(PUB6, pr, L4(1000, d, 2)) : pr \in {PROTO_TCP, PROTO_UDP}, d \in {22, 100}}
    \cup {F6(PUB6, PROTO_ICMP6, Icmp(t, 0)) : t \in {135, 137}}
    \cup {F6(PUB6, PROTO_ICMP, Icmp(11, 0)), ARP, Trunc(ARP, 14)}
    \cup {Trunc(F4(PUB4, PROTO_TCP, L4(1000, 22, 2), 5), 36)}

\* frames handed to xdp_blacklist
BlFrames ==
    {F4(s, PROTO_TCP, L4(1000, 22, 2), 5) :
        s \in {PUB4, LOW4, NET10, NET172, OUT172, NET192, NET169}}
    \cup {F6(s, PROTO_UDP, L4(1000, 22, 0)) : s \in {PUB6, LOW6, ULA6, ULAD6, LL6, SITE6}}
    \cup {ARP, Trunc(F4(NET10, PROTO_TCP, L4(1000, 22, 2), 5), 28),
          Trunc(F6(ULA6, PROTO_UDP, L4(1000, 22, 0)), 30)}

\* frames handed to xdp_suricata_gate
SurFrames ==
    {F4(s, PROTO_TCP, L4(1000, 22, 2), 5) : s \in {PUB4, LOW4}}
    \cup {F4(PUB4, PROTO_UDP, L4(1000, 22, 0), 5)}
    \cup {F6(s, PROTO_TCP, L4(1000, 22, 2)) : s \in {PUB6, LOW6}}
    \cup {ARP, Trunc(F4(PUB4, PROTO_TCP, L4(1000, 22, 2), 5), 30),
          Trunc(F6(PUB6, PROTO_TCP, L4(1000, 22, 2)), 50)}

\* frames handed to xdp_flow_fastpath and xdp_proto_dispatch
FlowFrames ==
    {F4(PUB4, PROTO_TCP, L4(1000, 22, 16), 5), F4(PUB4, PROTO_TCP, L4(1000, 22, 17), 5),
     F4(PUB4, PROTO_UDP, L4(1000, 22, 0), 5),
     F4(PUB4, 255, L4(1000, 22, 0), 5), F4(PUB4, PROTO_ICMP, Icmp(8, 0), 5),
     F6(PUB6, PROTO_TCP, L4(1000, 22, 16)), F6(PUB6, PROTO_TCP, L4(1000, 22, 4)),
     F6(PUB6, PROTO_UDP, L4(1000, 22, 0)), F6(PUB6, PROTO_ICMP6, Icmp(128, 0))}

\* frames handed to xdp_state: the initial SYN of one IPv4 source
RateFrames == {F4(PUB4, PROTO_TCP, L4(1000, 22, 2), 5)}

\* frames handed to xdp_state: the initial SYNs of two IPv6 sources, and an
\* ACK, a FIN+ACK and a SYN+ACK of the first
StateFrames ==
    {F6(s, PROTO_TCP, L4(1000, 22, 2)) : s \in {PUB6, LOW6}}
    \cup {F6(PUB6, PROTO_TCP, L4(1000, 22, f)) : f \in {16, 17, 18}}

Inputs(prog) ==
    IF prog = "xdp_wl_pass" THEN WlFrames
    ELSE IF prog = "xdp_acl" THEN AclFrames
    ELSE IF prog = "xdp_blacklist" THEN BlFrames
    ELSE IF prog = "xdp_suricata_gate" THEN SurFrames
    ELSE {F4(PUB4, PROTO_TCP, L4(1000, 22, 2), 5)}

\* the SEC("xdp") programs a frame can be handed to
Programs == {"xdp_wl_pass", "xdp_panic_flag", "xdp_acl", "xdp_blacklist",
             "xdp_suricata_gate"}

\* what the control plane writes
WlKeys    == {<<AF_INET, PUB4 \o Zeros(12), KeyRest>>,
              <<AF_INET, NET10 \o Zeros(12), KeyRest>>, <<AF_INET6, ULA6, KeyRest>>}
PanicVals == {NoEntry, <<0>>, <<1>>, <<2>>}
AclVals   == {NoEntry, <<{}>>, <<{22, 36}>>}
IcmpKeys  == {<<AF_INET, 11, 0>>, <<AF_INET, 8, 0>>, <<AF_INET6, 135, 0>>}
Drop4Keys == {LOW4}
Drop6Keys == {PUB6}
BypassVals == {NoEntry, <<0>>, <<1>>}
\* the flows the inspector publishes bypass records for
\* (5-tuples <<saddr, daddr, sport, dport, proto>> with the ports in wire order)
Port(n) == <<n \div 256, n % 256>>
Byp4Flows == {<<s, DST4, Port(1000), Port(22), PROTO_TCP>> : s \in {PUB4, LOW4}}
Byp6Flows == {<<s, DST6, Port(1000), Port(22), PROTO_TCP>> : s \in {PUB6, LOW6}}

(* ------------------------------ actions ------------------------------- *)

\* the tables, the clock and the hook after loading
InitTables ==
    /\ bpf_err \in BpfErrs
    /\ whitelist_map = {}
    /\ cli_log = <<>>
    /\ panic_flag = <<0>>
    /\ acl_ports = <<{}>>
    /\ icmp_allow = {}
    /\ ipv4_drop = {}
    /\ ipv6_drop = {}
    /\ global_bypass = <<0>>
    /\ flow_table_v4 = <<>>
    /\ flow_table_v6 = <<>>
    /\ now = 0
    /\ tcp_flow = <<>>
    /\ udp_flow = <<>>
    /\ tcp6_flow = <<>>
    /\ udp6_flow = <<>>
    /\ tcp_rate = <<>>
    /\ udp_rl = <<>>
    /\ cfg_map = <<[ns |-> 0, br |-> 0]>>
    /\ path_stats = <<0, 0>>
    /\ nrx = 0
    /\ flow_log = <<>>
    /\ syn_log = <<>>
    /\ udp_log = <<>>
    /\ nctl = 0
    /\ entry = "none"
    /\ pc = "idle"
    /\ pkt = <<>>
    /\ verdict = 0
    /\ trace = <<>>
    /\ cpu_run = [c \in CPUs |-> Idle]
    /\ cpu_stats = [c \in CPUs |-> <<0, 0>>]
    /\ cpu_seen = [c \in CPUs |-> <<0, 0>>]

\* no call of eq32 is under way
NoCall == eq_a = ZERO32 /\ eq_b = ZERO32 /\ eq_r = <<>>

Init == InitTables /\ NoCall /\ jmp_table = JmpWired

\* the program array as the loader leaves it, or with no slot filled: every
\* tail call then falls through (bpf_tail_call of the test build does nothing)
InitAnyJmp == InitTables /\ NoCall /\ jmp_table \in {JmpWired, JmpNone}

\* a frame arrives and is handed to one of the programs
Enter ==
    /\ pc = "idle"
    /\ \E prog \in Programs : \E p \in Inputs(prog) :
        /\ entry' = prog
        /\ pc' = prog
        /\ pkt' = p
    /\ verdict' = 0
    /\ trace' = <<>>
    /\ UNCHANGED <<bpf_err, jmp_table, eqvars, cpuvars, cfgvars, bypvars, datavars, nctl>>

\* the program returns ret
Return(stage, ret) ==
    /\ pc' = "done"
    /\ verdict' = ret
    /\ trace' = Append(trace, [stage |-> stage, cont |-> FALSE, ret |-> ret])

\* the program tail-calls into target and never returns
Jump(stage, target) ==
    /\ pc' = target
    /\ verdict' = verdict
    /\ trace' = Append(trace, [stage |-> stage, cont |-> TRUE, ret |-> 0])

\* the driver has acted on the verdict and the hook is free for the next frame
Release ==
    /\ pc = "done"
    /\ entry' = "none"
    /\ pc' = "idle"
    /\ pkt' = <<>>
    /\ verdict' = 0
    /\ trace' = <<>>
    /\ UNCHANGED <<bpf_err, jmp_table, eqvars, cpuvars, cfgvars, bypvars, datavars, nctl>>

WlPass ==
    /\ pc = "xdp_wl_pass"
    /\ LET r == xdp_wl_pass(pkt) IN
        IF r.call /\ TailTarget(PANIC_IDX) # "none"
        THEN Jump("xdp_wl_pass", TailTarget(PANIC_IDX))
        ELSE Return("xdp_wl_pass", r.ret)
    /\ UNCHANGED <<bpf_err, jmp_table, eqvars, cpuvars, cfgvars, bypvars, datavars, nctl, entry, pkt>>

PanicFlag ==
    /\ pc = "xdp_panic_flag"
    /\ Return("xdp_panic_flag", xdp_panic_flag)
    /\ UNCHANGED <<bpf_err, jmp_table, eqvars, cpuvars, cfgvars, bypvars, datavars, nctl, entry, pkt>>

Acl ==
    /\ pc = "xdp_acl"
    /\ Return("xdp_acl", xdp_acl(pkt).ret)
    /\ UNCHANGED <<bpf_err, jmp_table, eqvars, cpuvars, cfgvars, bypvars, datavars, nctl, entry, pkt>>

\* bpf_map_delete_elem on a PERCPU_ARRAY map: array slots cannot be deleted,
\* the call fails and the table is as before
ArrayDelete(tab, key) == tab

BlacklistUnlists ==
    /\ pc = "xdp_blacklist"
    /\ LET r == xdp_blacklist(pkt)
       IN  /\ ipv4_drop' = IF r.hit4 THEN ipv4_drop \ {SubSeq(pkt, 27, 30)} ELSE ipv4_drop
           /\ Return("xdp_blacklist", r.ret)
    /\ UNCHANGED <<bpf_err, jmp_table, eqvars, cpuvars, whitelist_map, cli_log, panic_flag, acl_ports,
                   icmp_allow, ipv6_drop, global_bypass, bypvars, datavars, nctl,
                   entry, pkt>>

Blacklist ==
    /\ pc = "xdp_blacklist"
    /\ LET r  == xdp_blacklist(pkt)
           k4 == parse_ipv4(pkt)
           k6 == parse_ipv6(pkt)
       IN  /\ flow_table_v4' = IF r.hit4 /\ k4.err = ZERO32
                               THEN ArrayDelete(flow_table_v4, k4.k)
                               ELSE flow_table_v4
           /\ flow_table_v6' = IF r.hit6 /\ k6.err = ZERO32
                               THEN ArrayDelete(flow_table_v6, k6.k)
                               ELSE flow_table_v6
           /\ Return("xdp_blacklist", r.ret)
    /\ UNCHANGED <<bpf_err, jmp_table, eqvars, cpuvars, cfgvars, datavars, nctl, entry, pkt>>

SuricataGate ==
    /\ pc = "xdp_suricata_gate"
    /\ Return("xdp_suricata_gate", xdp_suricata_gate(pkt).ret)
    /\ UNCHANGED <<bpf_err, jmp_table, eqvars, cpuvars, cfgvars, bypvars, datavars, nctl, entry, pkt>>

(* The flow fast path, the dispatcher and the stateful stage.  flow_log   *)
(* and syn_log record what happened to the frames themselves: the time of  *)
(* the last slow-path run on a 5-tuple (forgotten when the fast path sees  *)
(* a FIN or RST on it), and the initial SYNs of a source per arrival time, *)
(* for the arrivals less than RATE_WINDOW_NS ago.                          *)

FlowFastpath ==
    /\ pc = "xdp_flow_fastpath"
    /\ LET f   == flow_ctx(pkt)
           h   == lookup_hits(f, now)
           c   == cleanup_fin_rst(pkt, f)
           tgt == TailTarget(do_tailcall(f, h))
           r   == fastpath_fallthrough(pkt, f, now)
       IN  /\ path_stats' = count_path(FAST_CNT_IDX)
           /\ tcp_flow' = Delete(tcp_flow, c.k4)
           /\ tcp6_flow' = Delete(tcp6_flow, c.k6)
           /\ IF tgt # "none"
              THEN /\ Jump("xdp_flow_fastpath", tgt)
                   /\ UNCHANGED <<udp_rl, udp_log>>
              ELSE /\ Return("xdp_flow_fastpath", r.ret)
                   /\ udp_rl' = r.udp_rl
                   /\ udp_log' = Charged(pkt, r.udp_rl, r.ret)
    /\ flow_log' = IF IsFinRst(pkt) /\ HasPorts(pkt)
                   THEN Delete(flow_log, FiveTuple(pkt)) ELSE flow_log
    /\ UNCHANGED <<bpf_err, jmp_table, eqvars, cpuvars, cfgvars, bypvars, now, udp_flow, udp6_flow,
                   tcp_rate, cfg_map, nrx, syn_log, nctl, entry, pkt>>

ProtoDispatch ==
    /\ pc = "xdp_proto_dispatch"
    /\ LET d   == dispatch_ctx(pkt)
           u   == update_flows(d)
           tgt == TailTarget(dispatch_idx(d))
       IN  /\ path_stats' = count_path(SLOW_CNT_IDX)
           /\ tcp_flow' = Update(tcp_flow, u.k4_tcp, now)
           /\ udp_flow' = Update(udp_flow, u.k4_udp, now)
           /\ tcp6_flow' = Update(tcp6_flow, u.k6_tcp, now)
           /\ udp6_flow' = Update(udp6_flow, u.k6_udp, now)
           /\ IF tgt # "none"
              THEN Jump("xdp_proto_dispatch", tgt)
              ELSE Return("xdp_proto_dispatch", XDP_PASS)
    /\ flow_log' = IF IsTcpUdp(pkt) /\ HasPorts(pkt)
                   THEN Update(flow_log, FiveTuple(pkt), now) ELSE flow_log
    /\ UNCHANGED <<bpf_err, jmp_table, eqvars, cpuvars, cfgvars, bypvars, now, ratevars, cfg_map,
                   nrx, syn_log, udp_log, nctl, entry, pkt>>

State ==
    /\ pc = "xdp_state"
    /\ LET r   == xdp_state(pkt, now)
           k   == <<SrcKey(pkt), now>>
           old == IF k \in DOMAIN syn_log THEN syn_log[k] ELSE [seen |-> 0, passed |-> 0]
       IN  /\ tcp_rate' = r.tcp_rate
           /\ udp_rl' = r.udp_rl
           /\ Return("xdp_state", r.ret)
           /\ syn_log' = IF IsInitialSyn(pkt)
                         THEN Update(syn_log, k,
                                     [seen |-> old.seen + 1,
                                      passed |-> old.passed + B(r.ret = XDP_PASS)])
                         ELSE syn_log
           /\ udp_log' = Charged(pkt, r.udp_rl, r.ret)
    /\ UNCHANGED <<bpf_err, jmp_table, eqvars, cpuvars, cfgvars, bypvars, now, flowvars, cfg_map,
                   path_stats, nrx, flow_log, nctl, entry, pkt>>

\* a frame arrives and is handed to prog
Rx(prog, p) ==
    /\ pc = "idle"
    /\ entry' = prog
    /\ pc' = prog
    /\ pkt' = p
    /\ verdict' = 0
    /\ trace' = <<>>
    /\ nrx' = nrx + 1
    /\ UNCHANGED <<bpf_err, jmp_table, eqvars, cpuvars, cfgvars, bypvars, now, flowvars, ratevars,
                   cfg_map, path_stats, histvars, nctl>>

\* bpf_ktime_get_ns moves on to a later instant of S while the hook is idle;
\* syn_log forgets the arrivals that are RATE_WINDOW_NS or more ago
Tick(S) ==
    /\ pc = "idle"
    /\ \E t \in S : t > now /\ now' = t
    /\ syn_log' = [k \in {x \in DOMAIN syn_log : now' - x[2] < RATE_WINDOW_NS}
                       |-> syn_log[k]]
    /\ UNCHANGED <<bpf_err, jmp_table, eqvars, cpuvars, cfgvars, bypvars, flowvars, ratevars,
                   cfg_map, path_stats, nrx, flow_log, udp_log, nctl, runvars>>

\* bound on the frames handed to the fast path and the dispatcher
MaxFlowRx == 2

\* the instants at which frames arrive: the idle thresholds and one tick more
FlowInstants == {UDP_IDLE_NS, UDP_IDLE_NS + 1, TCP_IDLE_NS, TCP_IDLE_NS + 1}

EnterFlow ==
    /\ nrx < MaxFlowRx
    /\ \E prog \in {"xdp_flow_fastpath", "xdp_proto_dispatch"} :
        \E p \in FlowFrames : Rx(prog, p)

TickFlow == Tick(FlowInstants)

NextFlow ==
    \/ EnterFlow
    \/ Release
    \/ FlowFastpath
    \/ ProtoDispatch
    \/ SuricataGate
    \/ State
    \/ TickFlow

SpecFlow == Init /\ [][NextFlow]_vars

\* bound on the initial SYNs handed to the stateful stage
MaxRateRx == 22

\* the instants at which frames arrive: the last tick of the rate window
\* that opens at 0 and the tick after it
RateInstants == {RATE_WINDOW_NS - 1, RATE_WINDOW_NS}

EnterRate ==
    /\ nrx < MaxRateRx
    /\ \E p \in RateFrames : Rx("xdp_state", p)

TickRate == Tick(RateInstants)

NextRate ==
    \/ EnterRate
    \/ Release
    \/ State
    \/ TickRate

SpecRate == Init /\ [][NextRate]_vars

\* bound on the TCP segments handed to the stateful stage
MaxStateRx == 22

EnterState ==
    /\ nrx < MaxStateRx
    /\ \E p \in StateFrames : Rx("xdp_state", p)

NextState ==
    \/ EnterState
    \/ Release
    \/ State

SpecState == Init /\ [][NextState]_vars

(* The token bucket: UDP datagrams and TCP segments of one source are    *)
(* handed to the stateful stage, at instants around the refill interval   *)
(* and TTL_NS, while the control plane rewrites the slot of cfg_map.      *)

\* bound on the frames handed to the stateful stage
MaxUdpRx == 3
\* bound on the writes of cfg_map in a behaviour
MaxCfg == 1

\* what the control plane leaves in the slot of cfg_map, and a slot whose
\* lookup fails: ns is 0 (unset), 2 ticks or one tick more than TTL_NS, br
\* is 0 (unset) or 1
CfgVals ==
    {NoEntry} \cup {<<[ns |-> n, br |-> b]>> : n \in {0, 2, TTL_NS + 1}, b \in {0, 1}}

\* frames handed to xdp_state: a UDP datagram and a TCP ACK of one source
UdpFrames ==
    {F4(PUB4, PROTO_UDP, L4(1000, 53, 0), 5), F4(PUB4, PROTO_TCP, L4(1000, 22, 16), 5)}

\* the instants at which frames arrive: one and two ticks after 0, and
\* TTL_NS, which is TTL_NS - 1 after the first
UdpInstants == {1, 2, TTL_NS}

\* user space rewrites the slot of cfg_map while the hook is idle (each
\* program reads the slot once, in one step)
SetCfg ==
    /\ nctl < MaxCfg
    /\ pc = "idle"
    /\ \E v \in CfgVals \ {cfg_map} : cfg_map' = v
    /\ nctl' = nctl + 1
    /\ UNCHANGED <<bpf_err, jmp_table, eqvars, cpuvars, cfgvars, bypvars, now, flowvars, ratevars,
                   path_stats, nrx, histvars, runvars>>

EnterUdp ==
    /\ nrx < MaxUdpRx
    /\ \E p \in UdpFrames : Rx("xdp_state", p)

TickUdp == Tick(UdpInstants)

NextUdp ==
    \/ EnterUdp
    \/ Release
    \/ State
    \/ TickUdp
    \/ SetCfg

SpecUdp == Init /\ [][NextUdp]_vars

(* Rejected writes: frames are handed to the dispatcher and the stateful *)
(* stage of a kernel that may reject the writes of a run to the flow      *)
(* tables, to tcp_rate or to udp_rl.                                      *)

\* bound on the frames handed to the dispatcher and the stateful stage
MaxRejRx == 2

\* frames of one source: a UDP datagram and an initial SYN
RejFrames ==
    {F4(PUB4, PROTO_UDP, L4(1000, 53, 0), 5), F4(PUB4, PROTO_TCP, L4(1000, 22, 2), 5)}

\* the instants at which frames arrive: one tick after 0 and the end of the
\* rate window that opens at 0
RejInstants == {1, RATE_WINDOW_NS}

\* the build is the kernel's: BPF_ERR of test_xdp.c is none of its errors
KernelBuild == bpf_err = Neg32(U32(EFAULT))

\* xdp_proto_dispatch with the writes of update_flows rejected
ProtoDispatchRejected ==
    /\ pc = "xdp_proto_dispatch"
    /\ KernelBuild
    /\ LET tgt == TailTarget(dispatch_idx(dispatch_ctx(pkt)))
       IN  /\ path_stats' = count_path(SLOW_CNT_IDX)
           /\ IF tgt # "none"
              THEN Jump("xdp_proto_dispatch", tgt)
              ELSE Return("xdp_proto_dispatch", XDP_PASS)
    /\ UNCHANGED <<bpf_err, jmp_table, eqvars, cpuvars, cfgvars, bypvars, now, flowvars, ratevars,
                   cfg_map, nrx, histvars, nctl, entry, pkt>>

\* xdp_state with the writes to tcp_rate (rt), to udp_rl (ru) or to both
\* rejected
StateRejected ==
    /\ pc = "xdp_state"
    /\ KernelBuild
    /\ \E rt, ru \in BOOLEAN :
        /\ rt \/ ru
        /\ \E td \in IF rt THEN check_rate_limit_rejected(tcp_ctx(pkt), now)
                      ELSE {tcp_state_drop(pkt, now).drop} :
           \E ud \in IF ru THEN udp_state_drop_rejected(pkt, now)
                      ELSE {udp_state_drop(pkt, now).drop} :
              LET r   == xdp_state(pkt, now)
                  ret == IF td = 1 \/ ud = 1 THEN XDP_DROP ELSE XDP_PASS
                  k   == <<SrcKey(pkt), now>>
                  old == IF k \in DOMAIN syn_log THEN syn_log[k]
                         ELSE [seen |-> 0, passed |-> 0]
              IN  /\ tcp_rate' = IF rt THEN tcp_rate ELSE r.tcp_rate
                  /\ udp_rl' = IF ru THEN udp_rl ELSE r.udp_rl
                  /\ Return("xdp_state", ret)
                  /\ syn_log' = IF IsInitialSyn(pkt)
                                THEN Update(syn_log, k,
                                            [seen |-> old.seen + 1,
                                             passed |-> old.passed + B(ret = XDP_PASS)])
                                ELSE syn_log
                  /\ udp_log' = Charged(pkt, IF ru THEN udp_rl ELSE r.udp_rl, ret)
    /\ UNCHANGED <<bpf_err, jmp_table, eqvars, cpuvars, cfgvars, bypvars, now, flowvars, cfg_map,
                   path_stats, nrx, flow_log, nctl, entry, pkt>>

EnterRej ==
    /\ nrx < MaxRejRx
    /\ \E prog \in {"xdp_proto_dispatch", "xdp_state"} :
        \E p \in RejFrames : Rx(prog, p)

TickRej == Tick(RejInstants)

NextRej ==
    \/ EnterRej
    \/ Release
    \/ ProtoDispatch
    \/ ProtoDispatchRejected
    \/ State
    \/ StateRejected
    \/ TickRej

SpecRej == Init /\ [][NextRej]_vars

(* The flow stage on several CPUs.  Each CPU runs one program at a time *)
(* (XDP runs in the softirq of the receiving CPU); the programs of        *)
(* different CPUs interleave at their map operations.  A run is taken in  *)
(* two steps, the counter and the rest of the program, which works on the *)
(* flow tables all CPUs share; the frames are TCP segments, for which the *)
(* fast path leaves udp_rl alone.  The run ends at the tail call.         *)

\* bound on the frames handed to the CPUs
MaxCpuRx == 3

\* frames of one flow: an ACK and a FIN+ACK
CpuFrames ==
    {F4(PUB4, PROTO_TCP, L4(1000, 22, 16), 5), F4(PUB4, PROTO_TCP, L4(1000, 22, 17), 5)}

\* the counter slot of a flow-stage program
SlotOf(prog) == IF prog = "xdp_flow_fastpath" THEN FAST_CNT_IDX ELSE SLOW_CNT_IDX

\* a frame arrives on CPU c and is handed to the fast path or the dispatcher
CpuEnter(c) ==
    /\ cpu_run[c] = Idle
    /\ nrx < MaxCpuRx
    /\ \E prog \in {"xdp_flow_fastpath", "xdp_proto_dispatch"} : \E p \in CpuFrames :
        /\ cpu_run' = [cpu_run EXCEPT ![c] = [prog |-> prog, pkt |-> p, step |-> "count"]]
        /\ cpu_seen' = [cpu_seen EXCEPT ![c][SlotOf(prog) + 1] = @ + 1]
    /\ nrx' = nrx + 1
    /\ UNCHANGED <<bpf_err, jmp_table, eqvars, cpu_stats, cfgvars, bypvars, now, flowvars,
                   ratevars, cfg_map, path_stats, histvars, nctl, runvars>>

\* count_fast / count_slow on CPU c
CpuCount(c) ==
    /\ cpu_run[c].step = "count"
    /\ cpu_stats' = count_on(cpu_stats, c, SlotOf(cpu_run[c].prog))
    /\ cpu_run' = [cpu_run EXCEPT ![c].step = "rest"]
    /\ UNCHANGED <<bpf_err, jmp_table, eqvars, cpu_seen, cfgvars, bypvars, datavars, nctl,
                   runvars>>

\* the rest of xdp_flow_fastpath (cleanup_fin_rst) or of xdp_proto_dispatch
\* (update_flows) on CPU c, up to the tail call
CpuRest(c) ==
    /\ cpu_run[c].step = "rest"
    /\ LET p == cpu_run[c].pkt
           d == cleanup_fin_rst(p, flow_ctx(p))
           u == update_flows(dispatch_ctx(p))
       IN  IF cpu_run[c].prog = "xdp_flow_fastpath"
           THEN /\ tcp_flow' = Delete(tcp_flow, d.k4)
                /\ tcp6_flow' = Delete(tcp6_flow, d.k6)
                /\ UNCHANGED <<udp_flow, udp6_flow>>
                /\ flow_log' = IF IsFinRst(p) /\ HasPorts(p)
                               THEN Delete(flow_log, FiveTuple(p)) ELSE flow_log
           ELSE /\ tcp_flow' = Update(tcp_flow, u.k4_tcp, now)
                /\ udp_flow' = Update(udp_flow, u.k4_udp, now)
                /\ tcp6_flow' = Update(tcp6_flow, u.k6_tcp, now)
                /\ udp6_flow' = Update(udp6_flow, u.k6_udp, now)
                /\ flow_log' = IF IsTcpUdp(p) /\ HasPorts(p)
                               THEN Update(flow_log, FiveTuple(p), now) ELSE flow_log
    /\ cpu_run' = [cpu_run EXCEPT ![c] = Idle]
    /\ UNCHANGED <<bpf_err, jmp_table, eqvars, cpu_stats, cpu_seen, cfgvars, bypvars, now,
                   ratevars, cfg_map, path_stats, nrx, syn_log, udp_log, nctl, runvars>>

NextCpu ==
    \/ \E c \in CPUs : CpuEnter(c)
    \/ \E c \in CPUs : CpuCount(c)
    \/ \E c \in CPUs : CpuRest(c)

SpecCpu == Init /\ [][NextCpu]_vars

(* Control plane: the CLI and other writers of the control tables.  Each   *)
(* program runs as one step, so a write landing while a frame waits at the *)
(* program it was handed to, or after its verdict, has the effect of a     *)
(* write with the hook idle; writes are therefore interleaved when the     *)
(* hook is idle and between the programs of a run.                         *)

Ctl ==
    /\ nctl < MaxCtl
    /\ pc = "idle" \/ (pc # "done" /\ pc # entry)
    /\ nctl' = nctl + 1
    /\ UNCHANGED <<bpf_err, jmp_table, eqvars, cpuvars, datavars, runvars>>

\* a writer that passes keys of the map's key size, zero after addr: such
\* keys are the only ones the gate looks up
WlAdd ==
    /\ Ctl
    /\ \E k \in WlKeys \ whitelist_map : whitelist_map' = whitelist_map \cup {k}
    /\ UNCHANGED <<cli_log, panic_flag, acl_ports, icmp_allow, ipv4_drop, ipv6_drop,
                   global_bypass, bypvars>>

WlDel ==
    /\ Ctl
    /\ \E k \in whitelist_map : whitelist_map' = whitelist_map \ {k}
    /\ UNCHANGED <<cli_log, panic_flag, acl_ports, icmp_allow, ipv4_drop, ipv6_drop,
                   global_bypass, bypvars>>

(* The whitelist CLI, scripts/wl.c.  Its struct wl_v6_key has no aligned   *)
(* attribute and is CLI_KEY_SIZE bytes long, while the map's key size is   *)
(* WL_KEY_SIZE: the bpf system call reads the key's bytes after addr from  *)
(* the memory behind k on the stack of main, which k = {0} does not cover  *)
(* and which differs from run to run (saved registers, return address).    *)

\* bounds on the runs of the CLI and on the frames in a behaviour
MaxCli == 3
MaxCliRx == 1

\* the addresses given to the CLI: the 4 or 16 bytes inet_pton produces
CliIps == {PUB4, NET10, ULA6}

\* what the stack of main can hold behind k: zero bytes, or other bytes
StackRests ==
    {KeyRest, [KeyRest EXCEPT ![1] = 1], [KeyRest EXCEPT ![WL_KEY_SIZE - CLI_KEY_SIZE] = 127]}

\* main up to the map operation: k = {0}, the family by strchr(ip, ':'),
\* the address by inet_pton, an IPv4 address in the first 4 bytes of addr
cli_key(ip, stack) ==
    IF Len(ip) = 16 THEN <<AF_INET6, ip, stack>>
    ELSE <<AF_INET, ip \o Zeros(12), stack>>

\* the entries of the table whose family and address are those of ip
EntriesFor(ip) ==
    {k \in whitelist_map : k[1] = cli_key(ip, KeyRest)[1] /\ k[2] = cli_key(ip, KeyRest)[2]}

\* one run of the CLI: rc is the exit status
CliRun(cmd, ip, k, tab, rc) ==
    /\ nctl < MaxCli
    /\ pc = "idle"
    /\ whitelist_map' = tab
    /\ cli_log' = <<[cmd |-> cmd, ip |-> ip, key |-> k, rc |-> rc,
                     had |-> EntriesFor(ip)]>> \o SubSeq(cli_log, 1, IF cli_log = <<>> THEN 0 ELSE 1)
    /\ nctl' = nctl + 1
    /\ UNCHANGED <<bpf_err, jmp_table, eqvars, cpuvars, panic_flag, acl_ports, icmp_allow,
                   ipv4_drop, ipv6_drop, global_bypass, bypvars, datavars, runvars>>

\* wl add ip: bpf_map_update_elem(fd, &k, &one, BPF_ANY)
CliAdd ==
    \E ip \in CliIps : \E st \in StackRests :
        CliRun("add", ip, cli_key(ip, st), whitelist_map \cup {cli_key(ip, st)}, 0)

\* wl del ip: bpf_map_delete_elem(fd, &k), which fails on a key not in the
\* table (perror, exit status 1)
CliDel ==
    \E ip \in CliIps : \E st \in StackRests :
        LET k == cli_key(ip, st)
        IN  IF k \in whitelist_map
            THEN CliRun("del", ip, k, whitelist_map \ {k}, 0)
            ELSE CliRun("del", ip, k, whitelist_map, 1)

\* echo requests of the addresses given to the CLI
CliFrames ==
    {F4(PUB4, PROTO_ICMP, Icmp(8, 0), 5), F4(NET10, PROTO_ICMP, Icmp(8, 0), 5),
     F6(ULA6, PROTO_ICMP6, Icmp(128, 0))}

\* a frame is handed to the whitelist gate
EnterCli ==
    /\ pc = "idle"
    /\ nrx < MaxCliRx
    /\ \E p \in CliFrames : Rx("xdp_wl_pass", p)

NextCli ==
    \/ CliAdd
    \/ CliDel
    \/ EnterCli
    \/ WlPass
    \/ Release

SpecCli == Init /\ [][NextCli]_vars

SetPanic ==
    /\ Ctl
    /\ \E v \in PanicVals \ {panic_flag} : panic_flag' = v
    /\ UNCHANGED <<whitelist_map, cli_log, acl_ports, icmp_allow, ipv4_drop, ipv6_drop,
                   global_bypass, bypvars>>

SetAcl ==
    /\ Ctl
    /\ \E v \in AclVals \ {acl_ports} : acl_ports' = v
    /\ UNCHANGED <<whitelist_map, cli_log, panic_flag, icmp_allow, ipv4_drop, ipv6_drop,
                   global_bypass, bypvars>>

SetIcmp ==
    /\ Ctl
    /\ \E k \in IcmpKeys :
        icmp_allow' = IF k \in icmp_allow THEN icmp_allow \ {k} ELSE icmp_allow \cup {k}
    /\ UNCHANGED <<whitelist_map, cli_log, panic_flag, acl_ports, ipv4_drop, ipv6_drop,
                   global_bypass, bypvars>>

SetDrop4 ==
    /\ Ctl
    /\ \E k \in Drop4Keys :
        ipv4_drop' = IF k \in ipv4_drop THEN ipv4_drop \ {k} ELSE ipv4_drop \cup {k}
    /\ UNCHANGED <<whitelist_map, cli_log, panic_flag, acl_ports, icmp_allow, ipv6_drop,
                   global_bypass, bypvars>>

SetDrop6 ==
    /\ Ctl
    /\ \E k \in Drop6Keys :
        ipv6_drop' = IF k \in ipv6_drop THEN ipv6_drop \ {k} ELSE ipv6_drop \cup {k}
    /\ UNCHANGED <<whitelist_map, cli_log, panic_flag, acl_ports, icmp_allow, ipv4_drop,
                   global_bypass, bypvars>>

SetBypass ==
    /\ Ctl
    /\ \E v \in BypassVals \ {global_bypass} : global_bypass' = v
    /\ UNCHANGED <<whitelist_map, cli_log, panic_flag, acl_ports, icmp_allow, ipv4_drop,
                   ipv6_drop, bypvars>>

\* the inspector publishes a bypass record in the slot the flow hashes to
Publish4 ==
    /\ Ctl
    /\ \E k \in Byp4Flows :
        flow_table_v4' = [i \in DOMAIN flow_table_v4 \cup {idx_v4(k)} |->
                            IF i = idx_v4(k) THEN k ELSE flow_table_v4[i]]
    /\ UNCHANGED <<cfgvars, flow_table_v6>>

Publish6 ==
    /\ Ctl
    /\ \E k \in Byp6Flows :
        flow_table_v6' = [i \in DOMAIN flow_table_v6 \cup {idx_v6(k)} |->
                            IF i = idx_v6(k) THEN k ELSE flow_table_v6[i]]
    /\ UNCHANGED <<cfgvars, flow_table_v4>>

Next ==
    \/ Enter
    \/ Release
    \/ WlPass
    \/ PanicFlag
    \/ Acl
    \/ Blacklist
    \/ SuricataGate
    \/ WlAdd
    \/ WlDel
    \/ SetPanic
    \/ SetAcl
    \/ SetIcmp
    \/ SetDrop4
    \/ SetDrop6
    \/ SetBypass
    \/ Publish4
    \/ Publish6

Spec == Init /\ [][Next]_vars

(* The whole data plane next to the control plane: a frame is handed to   *)
(* any of the eight programs while the control plane fills the whitelist, *)
(* the IPv4 drop table, the panic flag and the slot of cfg_map.           *)

\* bound on the frames handed to the programs
MaxPlaneRx == 1

\* frames of a source of Drop4Keys and of one of WlKeys
PlaneFrames ==
    {F4(LOW4, PROTO_TCP, L4(1000, 22, 2), 5), F4(PUB4, PROTO_UDP, L4(1000, 53, 0), 5)}

\* the SEC("xdp") programs
AllPrograms ==
    Programs \cup {"xdp_flow_fastpath", "xdp_proto_dispatch", "xdp_state"}

EnterPlane ==
    /\ nrx < MaxPlaneRx
    /\ \E prog \in AllPrograms : \E p \in PlaneFrames : Rx(prog, p)

NextPlane ==
    \/ EnterPlane
    \/ Release
    \/ WlPass
    \/ PanicFlag
    \/ Acl
    \/ Blacklist
    \/ SuricataGate
    \/ FlowFastpath
    \/ ProtoDispatch
    \/ State
    \/ WlAdd
    \/ SetPanic
    \/ SetDrop4
    \/ SetCfg

SpecPlane == Init /\ [][NextPlane]_vars

(* The return values: a frame handed to any of the eight programs, with    *)
(* the program array filled or empty, the control tables and the cache     *)
(* written by the control plane and the inspector.  The gates keep nothing *)
(* from one frame to the next, so a further frame is taken only after one  *)
(* that left a bucket in udp_rl, and is a datagram handed to a program     *)
(* that charges the bucket: the limiter then objects to it.                *)

\* bound on the frames of a behaviour
MaxRetRx == 2

\* frames handed to the programs: a UDP datagram, an initial SYN and an echo
\* request of a public source, an echo request of a private one, a frame
\* that is not IP and an IPv4 frame cut within its header
RetFrames ==
    {F4(PUB4, PROTO_UDP, L4(1000, 22, 0), 5), F4(PUB4, PROTO_TCP, L4(1000, 22, 2), 5),
     F4(PUB4, PROTO_ICMP, Icmp(8, 0), 5), F4(NET10, PROTO_ICMP, Icmp(8, 0), 5),
     ARP, Trunc(F4(PUB4, PROTO_TCP, L4(1000, 22, 2), 5), 30)}

EnterRet ==
    /\ nrx < MaxRetRx
    /\ \E prog \in AllPrograms : \E p \in RetFrames :
        /\ nrx = 0 \/ (udp_rl # <<>> /\ prog \in {"xdp_state", "xdp_flow_fastpath"}
                        /\ IsUdp(p))
        /\ Rx(prog, p)

NextRet ==
    \/ EnterRet
    \/ Release
    \/ WlPass
    \/ PanicFlag
    \/ Acl
    \/ Blacklist
    \/ SuricataGate
    \/ FlowFastpath
    \/ ProtoDispatch
    \/ State
    \/ WlAdd
    \/ SetPanic
    \/ SetAcl
    \/ SetBypass
    \/ SetCfg

SpecRet == InitAnyJmp /\ [][NextRet]_vars

\* bound on the frames handed to the stateful stage while entries are evicted
MaxEvictRx == 3
\* bound on the evictions in a behaviour
MaxEvict == 2

\* frames handed to xdp_state: a UDP datagram and an initial SYN of one
\* source, and a UDP datagram of another
EvictFrames ==
    {F4(PUB4, PROTO_UDP, L4(1000, 53, 0), 5), F4(PUB4, PROTO_TCP, L4(1000, 22, 2), 5),
     F4(NET10, PROTO_UDP, L4(1000, 53, 0), 5)}

EnterEvict ==
    /\ nrx < MaxEvictRx
    /\ \E p \in EvictFrames : Rx("xdp_state", p)

\* the table without the entry of key k
Remove(tab, k) == [x \in DOMAIN tab \ {k} |-> tab[x]]

\* the LRU replacement of tcp_rate and udp_rl: an insert of another source
\* (of this CPU or, the keys of a per-CPU LRU hash being shared, of another
\* one) into a full table takes the entry of some source away, while the hook
\* of this CPU is idle
Evict ==
    /\ nctl < MaxEvict
    /\ pc = "idle"
    /\ \/ \E k \in DOMAIN tcp_rate : tcp_rate' = Remove(tcp_rate, k) /\ udp_rl' = udp_rl
       \/ \E k \in DOMAIN udp_rl : udp_rl' = Remove(udp_rl, k) /\ tcp_rate' = tcp_rate
    /\ nctl' = nctl + 1
    /\ UNCHANGED <<bpf_err, jmp_table, eqvars, cpuvars, cfgvars, bypvars, now, flowvars, cfg_map,
                   path_stats, nrx, histvars, runvars>>

TickEvict == Tick({1})

NextEvict ==
    \/ EnterEvict
    \/ Release
    \/ State
    \/ Evict
    \/ TickEvict
    \/ SetCfg

SpecEvict == Init /\ [][NextEvict]_vars

\* bound on the datagrams handed to the stateful stage
MaxPayloadRx == 22

\* frames handed to xdp_state: UDP datagrams of one source, one with 0x02
\* and one with 0 in the payload byte at the offset of the TCP flags
PayloadFrames == {F4(PUB4, PROTO_UDP, L4(1000, 53, f), 5) : f \in {0, 2}}

EnterPayload ==
    /\ nrx < MaxPayloadRx
    /\ \E p \in PayloadFrames : Rx("xdp_state", p)

NextPayload ==
    \/ EnterPayload
    \/ Release
    \/ State

SpecPayload == Init /\ [][NextPayload]_vars

\* bound on the frames handed to the fast path and the dispatcher
MaxFreshRx == 3

\* frames of one IPv4 UDP flow, one IPv4 TCP flow (an ACK and a FIN+ACK) and
\* one IPv6 UDP flow
FreshFrames ==
    {F4(PUB4, PROTO_UDP, L4(1000, 22, 0), 5), F4(PUB4, PROTO_TCP, L4(1000, 22, 16), 5),
     F4(PUB4, PROTO_TCP, L4(1000, 22, 17), 5), F6(PUB6, PROTO_UDP, L4(1000, 22, 0))}

\* the instants at which frames arrive: one tick after 0 and one tick more
\* than each idle threshold
FreshInstants == {1, UDP_IDLE_NS + 1, TCP_IDLE_NS + 1}

EnterFresh ==
    /\ nrx < MaxFreshRx
    /\ \E prog \in {"xdp_flow_fastpath", "xdp_proto_dispatch"} :
        \E p \in FreshFrames : Rx(prog, p)

TickFresh == Tick(FreshInstants)

NextFresh ==
    \/ EnterFresh
    \/ Release
    \/ FlowFastpath
    \/ ProtoDispatch
    \/ SuricataGate
    \/ State
    \/ TickFresh

SpecFresh == Init /\ [][NextFresh]_vars

\* the __u32 values eq32 is called with: the low byte and the high byte each
\* range over values around the ends of their range
EqBytes == {0, 1, 127, 128, 255}
EqWords == {<<lo, 0, 0, hi>> : lo \in EqBytes, hi \in EqBytes}

\* eq32 is called with any two of the values
InitEq ==
    /\ InitTables /\ jmp_table = JmpWired
    /\ eq_a \in EqWords /\ eq_b \in EqWords /\ eq_r = <<>>

\* the call returns
CallEq32 ==
    /\ eq_r = <<>>
    /\ eq_r' = eq32(eq_a, eq_b)
    /\ UNCHANGED <<eq_a, eq_b, bpf_err, jmp_table, cpuvars, cfgvars, bypvars, datavars,
                   nctl, runvars>>

NextEq == CallEq32

SpecEq == InitEq /\ [][NextEq]_vars

(* --------------------------- C1: whitelist ----------------------------- *)

\* C1: when the whitelist gate looks up a frame whose source key
\* {family, addr} is in whitelist_map, the run ends there with XDP_PASS,
\* whatever the other tables hold and also for an ICMP echo; when the key is
\* not (or no longer) in the table, the gate does not pass the frame.
C1_WhitelistOverride ==
    [][(Pipeline /\ Runs("xdp_wl_pass")) =>
        /\ Whitelisted(pkt) => (pc' = "done" /\ verdict' = XDP_PASS)
        /\ (HasSrc(pkt) /\ ~Whitelisted(pkt)) =>
              ~(pc' = "done" /\ verdict' = XDP_PASS)]_vars

\* a whitelisted ICMP echo was passed while panic_flag held 1
C1_Witness ==
    /\ Pipeline /\ pc = "done" /\ verdict = XDP_PASS
    /\ Whitelisted(pkt) /\ IsEcho(pkt) /\ panic_flag = <<1>>

(* ----------------------------- C2: panic ------------------------------- *)

\* C2: a run of the pipeline that ends while panic_flag holds 1 ends with
\* XDP_DROP unless the whitelist gate found the source whitelisted; the panic
\* gate never returns XDP_DROP when the flag holds 0 or is absent.
C2_PanicDrop ==
    [][/\ (/\ Pipeline /\ pc # "done" /\ pc' = "done" /\ panic_flag = <<1>>
           /\ ~(pc = "xdp_wl_pass" /\ Whitelisted(pkt)))
          => verdict' = XDP_DROP
       /\ (Runs("xdp_panic_flag") /\ panic_flag \in {NoEntry, <<0>>})
          => verdict' # XDP_DROP]_vars

\* the panic gate dropped a frame the whitelist gate had let continue
C2_Witness ==
    /\ Pipeline /\ pc = "done" /\ verdict = XDP_DROP
    /\ Len(trace) = 2 /\ LastStage.stage = "xdp_panic_flag"
    /\ panic_flag = <<1>> /\ ~Whitelisted(pkt)

(* ------------------------ C3: order of the stages ---------------------- *)

\* the verdict of the first of the whitelist, panic, ACL and blacklist gates
\* that short-circuits on frame p under the present tables; 0 when all four
\* let the frame continue
FirstShortCircuit(p) ==
    LET wl == xdp_wl_pass(p)
    IN  IF wl.hit THEN XDP_PASS
        ELSE IF wl.drop THEN XDP_DROP
        ELSE IF xdp_panic_flag = XDP_DROP THEN XDP_DROP
        ELSE IF xdp_acl(p).ret = XDP_DROP THEN XDP_DROP
        ELSE IF xdp_blacklist(p).ret = XDP_DROP THEN XDP_DROP
        ELSE 0

\* C3: the stages are consulted in the order whitelist, panic, ACL,
\* blacklist, ... and the verdict of a run is that of the first stage that
\* short-circuits: a run ends with the verdict of the first of these gates
\* that does not let the frame continue.
C3_FirstStageWins ==
    (Pipeline /\ pc = "done" /\ FirstShortCircuit(pkt) # 0)
        => verdict = FirstShortCircuit(pkt)

(* ------------------------ C4: reserved sources ------------------------- *)

\* C4: a run of the pipeline on a frame whose source is not whitelisted and
\* lies in a reserved range ends with XDP_DROP, also when the source is in
\* no drop table; the blacklist gate does not drop a source that is outside
\* the ranges and outside the tables.
C4_ReservedSourceDrop ==
    /\ (Pipeline /\ pc = "done" /\ SrcReserved(pkt) /\ ~Whitelisted(pkt))
          => verdict = XDP_DROP
    /\ (/\ entry = "xdp_blacklist" /\ pc = "done"
        /\ ~SrcReserved(pkt) /\ ~SrcListed(pkt))
          => verdict # XDP_DROP

(* ---------------------------- C5: ACL ports ---------------------------- *)

\* C5: the ACL gate lets a TCP or UDP frame continue iff its destination
\* port is below 64 and its bit is set in acl_ports (an absent entry reads as
\* zero), and so a run of the pipeline on a TCP frame from a source that is
\* not whitelisted with destination port >= 64 ends with XDP_DROP.
C5_AclPorts ==
    /\ (entry = "xdp_acl" /\ pc = "done" /\ IsTcpUdp(pkt) /\ HasPorts(pkt))
          => (verdict # XDP_DROP <=>
                /\ DPort(pkt) < 64
                /\ acl_ports # NoEntry
                /\ DPort(pkt) \in acl_ports[1])
    /\ (/\ Pipeline /\ pc = "done" /\ ~Whitelisted(pkt)
        /\ IsTcpUdp(pkt) /\ L4Proto(pkt) = PROTO_TCP
        /\ HasPorts(pkt) /\ DPort(pkt) >= 64)
          => verdict = XDP_DROP

(* -------------------------- C6: ACL protocols -------------------------- *)

C7_EchoDrop ==
    [][(Pipeline /\ Runs("xdp_wl_pass") /\ HasL4(pkt) /\ ~Whitelisted(pkt)) =>
        IF IsEcho(pkt) THEN pc' = "done" /\ verdict' = XDP_DROP
        ELSE pc' = "xdp_panic_flag"]_vars

\* on a miss an ICMPv6 echo was dropped by the whitelist gate
C7_Witness ==
    /\ Pipeline /\ pc = "done" /\ verdict = XDP_DROP /\ Len(trace) = 1
    /\ IsV6(pkt) /\ IsEcho(pkt) /\ ~Whitelisted(pkt)

(* ------------------------ C8: truncated frames ------------------------- *)

\* C8: when a load of the whitelist gate runs past the end of the frame the
\* gate leaves the verdict to the later stages: it never returns XDP_DROP
\* for a truncated frame.
C8_TruncatedContinue ==
    (/\ Pipeline /\ pc = "done" /\ LastStage.stage = "xdp_wl_pass"
     /\ Truncated(pkt))
        => verdict # XDP_DROP

(* ------------------------ C9: bare Ethernet frame ---------------------- *)

\* C9: a run of the pipeline on a frame of exactly ETH_HLEN bytes, whatever
\* its ethertype, ends with XDP_PASS when panic_flag is not set.
C9_BareEthernetPass ==
    (Pipeline /\ pc = "done" /\ Len(pkt) = ETH_HLEN /\ panic_flag # <<1>>)
        => verdict = XDP_PASS

(* --------------------- C10: deep-inspection bypass --------------------- *)

\* the bypass-cache slot the hash of the 5-tuple selects holds a record
\* equal to the 5-tuple
BypassMatch(p) ==
    IF IsV4(p)
    THEN /\ idx_v4(FiveTuple(p)) \in DOMAIN flow_table_v4
         /\ flow_table_v4[idx_v4(FiveTuple(p))] = FiveTuple(p)
    ELSE /\ idx_v6(FiveTuple(p)) \in DOMAIN flow_table_v6
         /\ flow_table_v6[idx_v6(FiveTuple(p))] = FiveTuple(p)

\* C10: with global_bypass not set the deep-inspection gate returns XDP_DROP
\* for a well-formed frame iff the bypass-cache slot selected by the hash of
\* its 5-tuple holds a record equal to the 5-tuple.
C10_BypassCacheDrop ==
    (/\ entry = "xdp_suricata_gate" /\ pc = "done" /\ global_bypass # <<1>>
     /\ HasIp(pkt) /\ HasPorts(pkt))
        => (verdict = XDP_DROP <=> BypassMatch(pkt))

(* ------------------------- C11: global bypass -------------------------- *)

\* C11: while global_bypass holds 1 the deep-inspection gate drops no frame,
\* whatever the bypass cache holds, and a TCP or UDP frame goes on into the
\* stateful stage, which gives the verdict of the run.
C11_GlobalBypassToState ==
    (/\ entry = "xdp_suricata_gate" /\ pc = "done" /\ global_bypass = <<1>>)
        => /\ verdict # XDP_DROP
           /\ IsTcpUdp(pkt) => LastStage.stage = "xdp_state"

(* --------------------- C12: eviction by the blacklist ------------------ *)

\* no slot of the bypass cache holds a record equal to the 5-tuple of p
NoBypassRecord(p) ==
    /\ \A i \in DOMAIN flow_table_v4 : flow_table_v4[i] # FiveTuple(p)
    /\ \A i \in DOMAIN flow_table_v6 : flow_table_v6[i] # FiveTuple(p)

\* C12: the blacklist gate returns XDP_DROP for a source in a drop table or
\* in a reserved range, and after it has dropped a well-formed frame the
\* bypass cache holds no record for the frame's 5-tuple; on a miss it leaves
\* the bypass cache as it was.
C12_BlacklistEvicts ==
    [][Runs("xdp_blacklist") =>
        IF SrcReserved(pkt) \/ SrcListed(pkt)
        THEN /\ verdict' = XDP_DROP
             /\ (HasIp(pkt) /\ HasPorts(pkt)) => NoBypassRecord(pkt)'
        ELSE UNCHANGED bypvars]_vars

(* ------------------------ C13: fresh flow entries ---------------------- *)

\* the flow table of the frame's family and protocol, and its idle threshold
FlowTable(p) ==
    IF IsV4(p) THEN (IF L4Proto(p) = PROTO_TCP THEN tcp_flow ELSE udp_flow)
    ELSE (IF L4Proto(p) = PROTO_TCP THEN tcp6_flow ELSE udp6_flow)
IdleOf(p) == IF L4Proto(p) = PROTO_TCP THEN TCP_IDLE_NS ELSE UDP_IDLE_NS
HasEntry(p) == FiveTuple(p) \in DOMAIN FlowTable(p)
EntryAge(p) == now - FlowTable(p)[FiveTuple(p)]
\* the fast path took the frame for a fresh hit: it tail-calls the stateful
\* stage; a miss goes to the deep-inspection gate
FreshHit == pc' = "xdp_state"

\* C13: the fast-path lookup of a TCP or UDP frame is a fresh hit exactly
\* when the table of its family and protocol has an entry for its exact
\* 5-tuple and now - ts <= idle (15 s for TCP, 5 s for UDP); an older entry
\* is a miss, and the fast path leaves it in the table.
C13_FreshHit ==
    [][(Runs("xdp_flow_fastpath") /\ IsTcpUdp(pkt) /\ HasPorts(pkt)) =>
        /\ FreshHit <=> (HasEntry(pkt) /\ EntryAge(pkt) <= IdleOf(pkt))
        /\ (HasEntry(pkt) /\ EntryAge(pkt) > IdleOf(pkt) /\ ~IsFinRst(pkt)) =>
              (pc' = "xdp_suricata_gate" /\ UNCHANGED flowvars)]_vars

\* the fast path has run on a UDP frame whose entry is one tick older than
\* UDP_IDLE_NS, took it for a miss, and the entry is still in the table
C13_Witness ==
    /\ entry = "xdp_flow_fastpath" /\ pc = "xdp_suricata_gate"
    /\ IsTcpUdp(pkt) /\ L4Proto(pkt) = PROTO_UDP
    /\ HasEntry(pkt) /\ EntryAge(pkt) = UDP_IDLE_NS + 1

(* -------------------------- C14: FIN/RST eviction ---------------------- *)

\* C14: once a run has processed a TCP segment with FIN or RST set, tcp_flow
\* / tcp6_flow has no entry for the segment's 5-tuple, so that the next
\* lookup of it is a miss: the fast path deletes the entry whether its own
\* lookup hit or not, and no later program of the run writes it again.
C14_FinRstEvicts ==
    (pc = "done" /\ IsFinRst(pkt) /\ HasPorts(pkt)) => ~HasEntry(pkt)

(* ----------------------- C15: ICMP on the fast path -------------------- *)

\* C15: the fast path answers every ICMP and ICMPv6 frame itself, with
\* XDP_PASS: the frame is not handed to the deep-inspection gate, the
\* dispatcher or the stateful stage.
C15_IcmpPass ==
    [][(Runs("xdp_flow_fastpath") /\ IsIcmp(pkt)) =>
        (pc' = "done" /\ verdict' = XDP_PASS)]_vars

(* ---------------------- C16: slow path, then fast path ----------------- *)

\* the last slow-path run on the frame's 5-tuple, with no FIN or RST of the
\* 5-tuple seen by the fast path since, is at most the idle threshold ago
SlowPathRecent(p) ==
    /\ FiveTuple(p) \in DOMAIN flow_log
    /\ now - flow_log[FiveTuple(p)] <= IdleOf(p)

\* C16: when a TCP or UDP frame with 5-tuple K takes the slow path at time t,
\* the flow table of its family and protocol maps K to t afterwards; the next
\* frame of K that reaches the fast path within the idle threshold, before a
\* FIN/RST of K, is a fresh hit and goes to the stateful stage, not to the
\* deep-inspection gate.
C16_SlowThenFast ==
    [][/\ (Runs("xdp_proto_dispatch") /\ IsTcpUdp(pkt) /\ HasPorts(pkt)) =>
            (HasEntry(pkt)' /\ EntryAge(pkt)' = 0)
       /\ (Runs("xdp_flow_fastpath") /\ IsTcpUdp(pkt) /\ HasPorts(pkt)
              /\ SlowPathRecent(pkt)) => pc' = "xdp_state"]_vars

\* a TCP frame whose 5-tuple took the slow path exactly TCP_IDLE_NS ago has
\* been sent on to the stateful stage by the fast path
C16_Witness ==
    /\ entry = "xdp_flow_fastpath" /\ pc = "xdp_state"
    /\ IsTcp(pkt) /\ FiveTuple(pkt) \in DOMAIN flow_log
    /\ now - flow_log[FiveTuple(pkt)] = TCP_IDLE_NS
    /\ trace = <<[stage |-> "xdp_flow_fastpath", cont |-> TRUE, ret |-> 0]>>

(* ------------------------ C17: INVALID_PROTO entries ------------------- *)

\* C17: an entry written with INVALID_PROTO never gives a fresh hit: when the
\* fast path takes a frame for a fresh hit, the frame is TCP or UDP, the
\* entry found carries its real protocol, and a slow-path run on a frame of
\* the same family, protocol, addresses and ports wrote it.
C17_NoInvalidProtoHit ==
    [][(Runs("xdp_flow_fastpath") /\ FreshHit) =>
        /\ IsTcpUdp(pkt) /\ HasEntry(pkt)
        /\ FiveTuple(pkt)[5] # INVALID_PROTO
        /\ FiveTuple(pkt) \in DOMAIN flow_log]_vars

\* the fast path has run on a frame of IP protocol 255 whose key is in
\* tcp_flow, written with INVALID_PROTO at this very instant, and took it
\* for a miss
C17_Witness ==
    /\ entry = "xdp_flow_fastpath" /\ pc = "xdp_suricata_gate"
    /\ HasIp(pkt) /\ L4Proto(pkt) = INVALID_PROTO
    /\ FiveTuple(pkt) \in DOMAIN tcp_flow
    /\ tcp_flow[FiveTuple(pkt)] = now

(* --------------------------- C18: SYN limiter -------------------------- *)

RECURSIVE SumOver(_, _)
\* the sum of f over the finite set S
SumOver(f, S) ==
    IF S = {} THEN 0
    ELSE LET x == CHOOSE y \in S : TRUE IN f[x] + SumOver(f, S \ {x})

\* the tcp_rate entry the stateful stage keeps for the source of the frame
RateEntry(p) == tcp_rate[make_key(tcp_ctx(p))]
\* the initial SYNs of the frame's source that arrived in the rate window of
\* its entry, and those among them that were passed
SynsInWindow(p) ==
    {k \in DOMAIN syn_log : k[1] = SrcKey(p) /\ k[2] >= RateEntry(p).window_start}
SynSeen(p) == SumOver([k \in SynsInWindow(p) |-> syn_log[k].seen], SynsInWindow(p))
SynPassed(p) == SumOver([k \in SynsInWindow(p) |-> syn_log[k].passed], SynsInWindow(p))

\* C18: for one source, on one CPU, within one rate window (window_start <=
\* now < window_start + 1 s) the SYN limiter passes the first 20 initial SYNs
\* (SYN set, ACK clear) and drops the 21st and every later one; syn_count
\* counts every initial SYN of the window, the dropped ones too.
C18_SynLimit ==
    (pc = "done" /\ LastStage.stage = "xdp_state" /\ IsInitialSyn(pkt)) =>
        /\ (verdict = XDP_PASS) <=> (SynSeen(pkt) <= SYN_RATE_LIMIT)
        /\ RateEntry(pkt).syn_count = SynSeen(pkt)

(* ------------------------ C19: SYNs per time span ---------------------- *)

\* the initial SYNs of source s that arrived less than RATE_WINDOW_NS ago
RecentSyns(s) ==
    {k \in DOMAIN syn_log : k[1] = s /\ now - k[2] < RATE_WINDOW_NS}

\* C19: of the initial SYNs one source sends on one CPU, at most 20 that
\* arrive inside a time span shorter than 1 s are passed, whatever the
\* sequence and whatever the span: at every instant, at most 20 of the SYNs
\* of the source that arrived less than 1 s ago have been passed.
C19_SynsPerSpan ==
    \A k \in DOMAIN syn_log :
        SumOver([x \in RecentSyns(k[1]) |-> syn_log[x].passed], RecentSyns(k[1]))
            <= SYN_RATE_LIMIT

(* ------------------- C20: segments other than initial SYNs ------------- *)

\* syn_count of the entry the stateful stage keeps for the source of the
\* frame, 0 while there is none
SynCount(p) ==
    IF make_key(tcp_ctx(p)) \in DOMAIN tcp_rate THEN RateEntry(p).syn_count ELSE 0

\* C20: a TCP segment that is not an initial SYN (SYN clear, or SYN with ACK;
\* a FIN+ACK, flags 0x11, among them) always gets XDP_PASS from the stateful
\* stage and never increments syn_count.
C20_NonSynPass ==
    [][(Runs("xdp_state") /\ IsTcp(pkt) /\ HasFlags(pkt) /\ ~IsInitialSyn(pkt)) =>
        /\ verdict' = XDP_PASS
        /\ tcp_rate'[make_key(tcp_ctx(pkt))].syn_count <= SynCount(pkt)]_vars

\* a FIN+ACK was passed by the stateful stage while syn_count of its source
\* was above SYN_RATE_LIMIT
C20_Witness ==
    /\ pc = "done" /\ LastStage.stage = "xdp_state" /\ verdict = XDP_PASS
    /\ IsTcp(pkt) /\ HasFlags(pkt) /\ TcpFlags(pkt) = 17
    /\ SynCount(pkt) > SYN_RATE_LIMIT

(* ------------------- C21: tokens stay within the burst ----------------- *)

\* the udp_rl entries a step writes: the bucket of the frame xdp_state runs
\* on, and every entry that is new or differs after the step
Written(k) ==
    \/ pc = "xdp_state" /\ pc' # pc /\ k = BucketKey(pkt)
    \/ k \notin DOMAIN udp_rl
    \/ udp_rl'[k] # udp_rl[k]

\* C21: every udp_rl entry a step writes holds between 0 and burst tokens,
\* for the burst in force in that step: whatever the idle time and the refill
\* interval, and also when the burst was lowered below the tokens the entry
\* held.  The stored tokens are never below zero.
C21_TokensWithinBurst ==
    [][\A k \in DOMAIN udp_rl' :
            Written(k) => udp_rl'[k].tokens \in 0..rl_cfg_get.br]_vars

\* the second frame is a datagram that arrives at instant 0 under burst 1
\* and passes: the bucket held the tokens of the default burst 100
C21_Witness ==
    /\ pc = "done" /\ nrx = 2 /\ now = 0 /\ IsUdp(pkt)
    /\ rl_cfg_get.br = 1
    /\ verdict = XDP_PASS
    /\ udp_rl[BucketKey(pkt)] = [last_seen |-> 0, tokens |-> 0]

(* ------------------------ C22: reset after TTL_NS ---------------------- *)

\* the bucket of the frame's source, when there is one
HasBucket(p) == BucketKey(p) \in DOMAIN udp_rl
Bucket(p) == udp_rl[BucketKey(p)]
\* the SYN limiter objects to the frame
SynLimited(p) == tcp_state_drop(p, now).drop = 1

Refilled(p) ==
    LET c    == rl_cfg_get
        idle == now - Bucket(p).last_seen
        sum  == Bucket(p).tokens + idle \div c.ns
    IN  IF ~HasBucket(p) \/ idle >= TTL_NS THEN c.br
        ELSE IF sum > c.br THEN c.br ELSE sum

\* the last UDP datagram of the frame's source took the last token
TookLast(p) ==
    /\ SrcKey(p) \in DOMAIN udp_log
    /\ udp_log[SrcKey(p)].left = 0
    /\ udp_log[SrcKey(p)].ret = XDP_PASS
\* the time since the last UDP datagram of the frame's source
SinceLast(p) == now - udp_log[SrcKey(p)].t

\* what xdp_state does with a datagram that finds one token (PASS unless the
\* SYN limiter objects, tokens = 0), and with the next datagram of a source
\* whose last datagram took the last token, when `soon` holds of its
\* arrival (DROP, tokens = 0, last_seen = now)
LastTokenThenDrop(soon) ==
    (Runs("xdp_state") /\ IsUdp(pkt)) =>
        /\ Refilled(pkt) = 1 =>
              /\ verdict' = XDP_PASS \/ SynLimited(pkt)
              /\ udp_rl'[BucketKey(pkt)].tokens = 0
        /\ (TookLast(pkt) /\ soon) =>
              /\ verdict' = XDP_DROP
              /\ udp_rl'[BucketKey(pkt)] = [last_seen |-> now, tokens |-> 0]

BucketDrops == verdict' = XDP_DROP /\ ~SynLimited(pkt)

\* C24: a UDP source whose consecutive datagrams are spaced at least ns
\* apart never has a datagram dropped by the token bucket, for any burst
\* and from any bucket state: a datagram that arrives ns or more after the
\* last datagram of its source is not dropped by the bucket.
C24_SpacedNeverDropped ==
    [][(Runs("xdp_state") /\ IsUdp(pkt) /\ SrcKey(pkt) \in DOMAIN udp_log
            /\ SinceLast(pkt) >= rl_cfg_get.ns) => ~BucketDrops]_vars

(* ------------------------ C25: the rl_cfg in force ---------------------- *)

\* C25: rl_cfg_get returns ns = 1000000 (one tick) and burst = 100 when the
\* slot of cfg_map cannot be read, replaces a stored ns of 0 by 1000000 and a
\* stored burst of 0 by 100, each on its own, and returns non-zero stored
\* values unchanged; the ns and burst the bucket uses are never zero.
C25_CfgDefaults ==
    /\ cfg_map = NoEntry => rl_cfg_outcomes = {[ns |-> 1, br |-> 100]}
    /\ cfg_map # NoEntry =>
          rl_cfg_outcomes =
              {[ns |-> IF cfg_map[1].ns = 0 THEN 1 ELSE cfg_map[1].ns,
                br |-> IF cfg_map[1].br = 0 THEN 100 ELSE cfg_map[1].br]}
    /\ rl_cfg_get \in rl_cfg_outcomes
    /\ rl_cfg_get.ns # 0 /\ rl_cfg_get.br # 0

\* a datagram was charged while the slot held a refill interval and no
\* burst: the bucket was created with 100 tokens
C25_Witness ==
    /\ pc = "done" /\ IsUdp(pkt) /\ nrx = 1 /\ verdict = XDP_PASS
    /\ cfg_map = <<[ns |-> 2, br |-> 0]>>
    /\ udp_rl[BucketKey(pkt)].tokens = 99

(* ------------------------- C26: rejected writes ------------------------ *)

\* the tcp_rate key of the frame's source
RateKey(p) == make_key(tcp_ctx(p))

\* C26: when the writes of a run to a data-plane table are rejected and the
\* lookup finds no entry, the run gives the verdict of a first packet of the
\* source or flow.  The dispatcher goes on to the next stage; the stateful
\* stage returns XDP_PASS for a frame whose source is left without an entry
\* in tcp_rate and udp_rl, and a frame whose source is left without an entry
\* in one of them is dropped only by the limiter of the other.
C26_RejectedWriteNoDrop ==
    [][/\ Runs("xdp_proto_dispatch") => verdict' # XDP_DROP
       /\ Runs("xdp_state") =>
            /\ (RateKey(pkt) \notin DOMAIN tcp_rate'
                    /\ BucketKey(pkt) \notin DOMAIN udp_rl') => verdict' = XDP_PASS
            /\ (RateKey(pkt) \notin DOMAIN tcp_rate' /\ verdict' = XDP_DROP) =>
                    /\ IsUdp(pkt)
                    /\ BucketKey(pkt) \in DOMAIN udp_rl'
                    /\ udp_rl'[BucketKey(pkt)].tokens = 0
            /\ (BucketKey(pkt) \notin DOMAIN udp_rl' /\ verdict' = XDP_DROP) =>
                    /\ IsInitialSyn(pkt)
                    /\ RateKey(pkt) \in DOMAIN tcp_rate'
                    /\ tcp_rate'[RateKey(pkt)].syn_count > SYN_RATE_LIMIT]_vars

\* the stateful stage has passed a datagram whose source has no entry in
\* tcp_rate and none in udp_rl: both inserts were rejected
C26_Witness ==
    /\ pc = "done" /\ LastStage.stage = "xdp_state" /\ verdict = XDP_PASS
    /\ IsUdp(pkt)
    /\ RateKey(pkt) \notin DOMAIN tcp_rate
    /\ BucketKey(pkt) \notin DOMAIN udp_rl

(* ------------------ C27: control tables are read-only ------------------ *)

\* the step in which a program runs on the frame
DataPlaneStep == pc \notin {"idle", "done"} /\ pc' # pc

\* C27: no stage of the data plane inserts, updates or deletes an entry of
\* whitelist, ipv4_drop, ipv6_drop, acl_ports, icmp_allow, panic_flag,
\* global_bypass or cfg: a step of a program leaves them as they are.
C27_ControlTablesReadOnly ==
    [][DataPlaneStep =>
        UNCHANGED <<whitelist_map, ipv4_drop, ipv6_drop, acl_ports, icmp_allow,
                    panic_flag, global_bypass, cfg_map>>]_vars

\* the blacklist gate has dropped a frame whose source is still listed
C27_Witness ==
    /\ pc = "done" /\ LastStage.stage = "xdp_blacklist" /\ verdict = XDP_DROP
    /\ SrcListed(pkt)

\* the sum of a counter slot over the shards of all CPUs
RECURSIVE ShardSum(_, _)
ShardSum(S, idx) ==
    IF S = {} THEN 0
    ELSE LET c == CHOOSE x \in S : TRUE
         IN  cpu_stats[c][idx + 1] + ShardSum(S \ {c}, idx)

\* the frames handed to CPU c's program of slot idx whose counter has not run yet
Uncounted(c, idx) ==
    B(cpu_run[c].step = "count" /\ SlotOf(cpu_run[c].prog) = idx)

\* the frames handed to the flow stage, on any CPU, whose counter has run
Counted ==
    nrx - Cardinality({c \in CPUs : cpu_run[c].step = "count"})

\* C28: every frame that enters the flow fast path adds exactly 1 to slot 0 of
\* its own CPU's shard of path_stats, and every frame that enters the
\* dispatcher exactly 1 to slot 1 of it: under every interleaving of the CPUs,
\* each shard's slot equals the number of frames handed to that CPU's program
\* less the one whose counter has not run yet, so no increment is lost; no
\* counter ever decreases; and the sum of both slots over all CPUs is at
\* least the number of frames that passed the flow stage's counter.
C28_CountersExact ==
    /\ [](\A c \in CPUs : \A idx \in {FAST_CNT_IDX, SLOW_CNT_IDX} :
            cpu_stats[c][idx + 1] = cpu_seen[c][idx + 1] - Uncounted(c, idx))
    /\ [](ShardSum(CPUs, FAST_CNT_IDX) + ShardSum(CPUs, SLOW_CNT_IDX) >= Counted)
    /\ [][\A c \in CPUs : \A i \in 1..2 : cpu_stats'[c][i] >= cpu_stats[c][i]]_vars

\* two CPUs have counted a frame each, one in the fast path and one in the
\* dispatcher, while a third frame is being handled
C28_Witness ==
    /\ \E c \in CPUs : cpu_stats[c][FAST_CNT_IDX + 1] >= 1
    /\ \E c \in CPUs : cpu_stats[c][SLOW_CNT_IDX + 1] >= 1
    /\ \E c, d \in CPUs : c # d /\ cpu_stats[c] # <<0, 0>> /\ cpu_stats[d] # <<0, 0>>
    /\ \E c \in CPUs : cpu_run[c].step = "rest"

\* the last two runs of the CLI were wl add ip and then wl del ip
AddThenDel ==
    /\ Len(cli_log) = 2
    /\ cli_log[2].cmd = "add"
    /\ cli_log[1].cmd = "del"
    /\ cli_log[1].ip = cli_log[2].ip

\* C29: for every address X and every initial content of the whitelist (X
\* absent or X present), after the runs wl add X and wl del X the entries of
\* the table for X are those it held before the add.
C29_AddDelRoundTrip ==
    AddThenDel => EntriesFor(cli_log[1].ip) = cli_log[2].had

\* the frame's source address, as the CLI is given it
SrcIp(p) == IF IsV4(p) THEN SubSeq(p, 27, 30) ELSE SubSeq(p, 23, 38)

\* the last run of the CLI was a successful wl add of the frame's source
AddedSrc ==
    /\ Len(cli_log) >= 1
    /\ cli_log[1].cmd = "add"
    /\ cli_log[1].rc = 0
    /\ cli_log[1].ip = SrcIp(pkt)

\* C30: for every IPv4 or IPv6 address X the key the CLI writes for X, over
\* the full key size of the map, is byte for byte the key the whitelist gate
\* builds for a frame whose source is X, so that after wl add X the gate
\* finds a frame from X whitelisted and passes it.
C30_CliKeyIsGateKey ==
    [][(Runs("xdp_wl_pass") /\ AddedSrc)
        => (cli_log[1].key = SrcKey(pkt) /\ verdict' = XDP_PASS)]_vars

\* program prog has returned ret for the frame
Returned(prog, ret) ==
    /\ pc = "done"
    /\ trace[Len(trace)] = [stage |-> prog, cont |-> FALSE, ret |-> ret]

\* C31: every program (xdp_wl_pass, xdp_panic_flag, xdp_acl, xdp_blacklist,
\* xdp_flow_fastpath, xdp_suricata_gate, xdp_proto_dispatch, xdp_state)
\* returns XDP_PASS (2) or XDP_DROP (1) for every frame and every state of
\* the tables: the selects by XOR and mask never give another value.
C31_PassOrDrop ==
    \A i \in DOMAIN trace :
        ~trace[i].cont => trace[i].ret \in {XDP_DROP, XDP_PASS}

\* the fast path, its tail call not taken, found the bucket empty and
\* returned XDP_DROP
C31_Witness == Returned("xdp_flow_fastpath", XDP_DROP)

(* ---------------- C32: overwritten bypass-cache slots ------------------ *)

\* C32: whatever the inspector has written to the bypass cache before the
\* gate reads it, the deep-inspection gate returns XDP_DROP for a frame only
\* if the record in the frame's slot equals the frame's own 5-tuple: a slot
\* that is empty, overwritten or held by another flow never makes it drop.
C32_DropOnlyOnOwnRecord ==
    [][(Runs("xdp_suricata_gate") /\ verdict' = XDP_DROP)
        => (HasIp(pkt) /\ HasPorts(pkt) /\ BypassMatch(pkt))]_vars

(* ------------------------- C33: termination ---------------------------- *)

\* the programs that have run on the frame, in order
Stages == [i \in DOMAIN trace |-> trace[i].stage]

\* the tail calls a program can still be followed by: xdp_wl_pass calls
\* into PANIC_IDX, xdp_flow_fastpath into STATE_IDX or SURICATA_IDX,
\* xdp_proto_dispatch into STATE_IDX, and the programs in these slots make
\* no tail call
Rank(prog) ==
    IF prog \in {"xdp_panic_flag", "xdp_suricata_gate", "xdp_state"} THEN 1
    ELSE IF prog \in AllPrograms THEN 2
    ELSE 0

\* C33: every run ends with a verdict after a bounded number of steps: no
\* program runs twice on a frame; every step of a program either returns or
\* tail-calls a program of lower rank, so that a run has at most two
\* programs; no step of the control plane or of another frame moves,
\* cancels or restarts the run; and the run's end carries XDP_PASS or
\* XDP_DROP.
C33_RunsTerminate ==
    /\ [](\A i, j \in DOMAIN trace : i # j => Stages[i] # Stages[j])
    /\ [](Len(trace) + Rank(pc) <= 2)
    /\ [][(pc \in AllPrograms /\ pc' # pc)
            => (Rank(pc') < Rank(pc) /\ Len(trace') = Len(trace) + 1)]_vars
    /\ [][(pc \in AllPrograms /\ pc' = pc) => UNCHANGED <<pkt, trace, verdict>>]_vars
    /\ [](pc = "done" => (trace # <<>> /\ verdict \in {XDP_DROP, XDP_PASS}))

\* a run of two programs has ended: the fast path handed the frame on and
\* the stateful stage gave the verdict
C33_Witness ==
    /\ pc = "done"
    /\ Stages = <<"xdp_flow_fastpath", "xdp_state">>

C34_SynWitness ==
    /\ pc = "done" /\ IsInitialSyn(pkt) /\ verdict = XDP_PASS
    /\ <<SrcKey(pkt), now>> \in DOMAIN syn_log
    /\ syn_log[<<SrcKey(pkt), now>>].seen = 2
    /\ RateEntry(pkt).syn_count = 1

(* ------------- C35: the fast path whose tail call is not taken ---------- *)

\* C35: when the tail call out of xdp_flow_fastpath is not taken (the slot
\* of jmp_table is empty) the fast path returns a verdict itself.  A UDP
\* datagram is charged to the bucket of its source in-line: it is dropped
\* exactly when the bucket holds no token after the refill, and the bucket is
\* left with the refilled tokens less the one taken and last_seen = now.
\* Every frame that is not a UDP datagram gets XDP_PASS and leaves udp_rl as
\* it was.
C35_FallthroughChargesUdp ==
    [][Runs("xdp_flow_fastpath") =>
        /\ jmp_table = JmpNone => pc' = "done"
        /\ (pc' = "done" /\ IsUdp(pkt)) =>
              /\ verdict' = XDP_DROP <=> Refilled(pkt) = 0
              /\ verdict' = XDP_PASS <=> Refilled(pkt) > 0
              /\ udp_rl'[BucketKey(pkt)] =
                    [last_seen |-> now,
                     tokens |-> Refilled(pkt) - B(Refilled(pkt) > 0)]
        /\ (pc' = "done" /\ ~IsUdp(pkt)) =>
              verdict' = XDP_PASS /\ udp_rl' = udp_rl]_vars

\* with the program array empty, the fast path dropped a UDP datagram that
\* found the bucket of its source empty
C35_Witness ==
    /\ jmp_table = JmpNone /\ pc = "done" /\ IsUdp(pkt)
    /\ trace = <<[stage |-> "xdp_flow_fastpath", cont |-> FALSE, ret |-> XDP_DROP]>>
    /\ udp_log[SrcKey(pkt)].had = 0
    /\ Bucket(pkt).tokens = 0

\* with the program array empty, the fast path passed a TCP segment
C35_TcpWitness ==
    /\ jmp_table = JmpNone /\ pc = "done" /\ IsTcp(pkt)
    /\ trace = <<[stage |-> "xdp_flow_fastpath", cont |-> FALSE, ret |-> XDP_PASS]>>

(* ---------------- C36: the SYN limiter and UDP datagrams ---------------- *)

\* C36: the stateful stage drops a UDP datagram only when the bucket of its
\* source holds no token after the refill, and a frame that is not a TCP
\* segment is never counted by the SYN limiter: the run does not raise
\* syn_count of its source, whatever its payload holds at the offset of the
\* TCP flags.
C36_UdpDroppedByBucketOnly ==
    [][Runs("xdp_state") =>
        /\ (IsUdp(pkt) /\ verdict' = XDP_DROP) => Refilled(pkt) = 0
        /\ ~IsTcp(pkt) => tcp_rate'[RateKey(pkt)].syn_count <= SynCount(pkt)]_vars

(* --------------- C37: each limiter writes its own table only ------------ *)

\* C37: a TCP segment handed to the stateful stage leaves udp_rl as it was
\* (the entry of its source is neither created nor written), and a UDP
\* datagram leaves tcp_rate as it was.
C37_OwnTableOnly ==
    [][Runs("xdp_state") =>
        /\ IsTcp(pkt) => udp_rl' = udp_rl
        /\ IsUdp(pkt) => tcp_rate' = tcp_rate]_vars

(* ------------- C38: the fast path leaves the timestamps alone ----------- *)

\* the entries of table tab that carry the real protocol proto
RealFlows(tab, proto) == {k \in DOMAIN tab : k[5] = proto}
\* every entry of tab with protocol proto holds the time of the last
\* slow-path run on its 5-tuple
StoredIsLastSlow(tab, proto) ==
    \A k \in RealFlows(tab, proto) : k \in DOMAIN flow_log /\ tab[k] = flow_log[k]
\* the step removes entries of tab or leaves it alone: every entry it leaves
\* holds the timestamp it held
Kept(tab, tabn) == \A k \in DOMAIN tabn : k \in DOMAIN tab /\ tabn[k] = tab[k]

\* C38: a run of the fast path, hit or miss, writes no timestamp: the
\* entries of tcp_flow, udp_flow, tcp6_flow and udp6_flow it leaves hold the
\* values they held.  The value stored for a flow is therefore the time of
\* the last frame of the flow that took the slow path, and a frame that
\* reaches the fast path more than the idle threshold after that time is not
\* a fresh hit, whatever number of frames hit in between.
C38_FastPathKeepsTimestamp ==
    /\ [][Runs("xdp_flow_fastpath") =>
            /\ Kept(tcp_flow, tcp_flow') /\ Kept(udp_flow, udp_flow')
            /\ Kept(tcp6_flow, tcp6_flow') /\ Kept(udp6_flow, udp6_flow')]_vars
    /\ [](/\ StoredIsLastSlow(tcp_flow, PROTO_TCP)
          /\ StoredIsLastSlow(udp_flow, PROTO_UDP)
          /\ StoredIsLastSlow(tcp6_flow, PROTO_TCP)
          /\ StoredIsLastSlow(udp6_flow, PROTO_UDP))
    /\ [][(Runs("xdp_flow_fastpath") /\ IsTcpUdp(pkt) /\ HasPorts(pkt)
              /\ FiveTuple(pkt) \in DOMAIN flow_log
              /\ now - flow_log[FiveTuple(pkt)] > IdleOf(pkt)) => ~FreshHit]_vars

\* a UDP flow was installed by the slow path, a later datagram of it was a
\* fresh hit and reached the stateful stage, and the datagram that arrives
\* one tick more than UDP_IDLE_NS after the installation is a miss: the
\* entry still holds the time of the installation
C38_Witness ==
    /\ entry = "xdp_flow_fastpath" /\ pc = "xdp_suricata_gate"
    /\ L4Proto(pkt) = PROTO_UDP /\ HasEntry(pkt)
    /\ FlowTable(pkt)[FiveTuple(pkt)] = flow_log[FiveTuple(pkt)]
    /\ EntryAge(pkt) = UDP_IDLE_NS + 1
    /\ SrcKey(pkt) \in DOMAIN udp_log
    /\ udp_log[SrcKey(pkt)].t > flow_log[FiveTuple(pkt)]

(* ------------------ C39: what the fast path may delete ------------------ *)

\* the keys the fast path deletes for the frame
CleanupKeys(p) == cleanup_fin_rst(p, flow_ctx(p))

\* C39: no entry of tcp_flow or tcp6_flow has the protocol byte 0.  For a
\* frame that is not a TCP segment with FIN or RST the fast path issues its
\* deletes with the protocol byte of the key set to 0, and leaves tcp_flow
\* and tcp6_flow as they were; a FIN or RST segment of IPv4 leaves tcp6_flow
\* as it was, and one of IPv6 leaves tcp_flow as it was.
C39_OnlyFinRstDeletes ==
    /\ [](\A k \in DOMAIN tcp_flow \cup DOMAIN tcp6_flow : k[5] # 0)
    /\ [][Runs("xdp_flow_fastpath") =>
            /\ ~IsFinRst(pkt) =>
                  /\ CleanupKeys(pkt).k4[5] = 0 /\ CleanupKeys(pkt).k6[5] = 0
                  /\ tcp_flow' = tcp_flow /\ tcp6_flow' = tcp6_flow
            /\ (IsFinRst(pkt) /\ IsV4(pkt)) =>
                  CleanupKeys(pkt).k6[5] = 0 /\ tcp6_flow' = tcp6_flow
            /\ (IsFinRst(pkt) /\ IsV6(pkt)) =>
                  CleanupKeys(pkt).k4[5] = 0 /\ tcp_flow' = tcp_flow]_vars

\* the fast path has run on a TCP ACK whose 5-tuple is in the flow table, and
\* the entry is still there
C39_Witness ==
    /\ entry = "xdp_flow_fastpath" /\ pc = "xdp_state"
    /\ IsTcp(pkt) /\ HasFlags(pkt) /\ TcpFlags(pkt) = 16
    /\ HasEntry(pkt)

\* the fast path has run on an IPv4 FIN+ACK while tcp6_flow held the entry of
\* an IPv6 TCP flow, and the entry is still there
C39_FamilyWitness ==
    /\ entry = "xdp_flow_fastpath" /\ pc = "xdp_suricata_gate"
    /\ IsFinRst(pkt) /\ IsV4(pkt)
    /\ \E k \in DOMAIN tcp6_flow : k[5] = PROTO_TCP

(* ------------------------------ C40: eq32 ------------------------------- *)

\* C40: for all 32-bit values a and b, eq32(a, b) returns 0xFFFFFFFF if
\* a = b and 0 otherwise.
C40_Eq32 ==
    eq_r # <<>> => eq_r = (IF eq_a = eq_b THEN ONES32 ELSE ZERO32)

=============================================================================
